---------------------------- MODULE Spec2Model ----------------------------
(***************************************************************************)
(* A model of the ivi-layout library of weston-ivi-shell: screens, layers  *)
(* and surfaces with pending and current properties, pending and committed *)
(* order lists, event masks, observer lists and ivi_layout_commitChanges.  *)
(*                                                                         *)
(* Objects are named by their ids (id_layer, id_surface, id_screen).  A    *)
(* wl_list is a sequence, its head first: wl_list_insert(list, elm) puts   *)
(* elm in front.  An intrusive link (pending.link, order.link) is in at    *)
(* most one list, so wl_list_remove of a link removes the object from      *)
(* whichever list holds it.  Allocations are taken to succeed.             *)
(*                                                                         *)
(* A back-link record (struct link_layer, struct link_screen) is in two    *)
(* lists, one on each side; each list keeps its own entry for it, with the *)
(* object the entry leads to and whether the record has been freed while   *)
(* the entry was still linked.  A surface whose pending.link or order.link *)
(* was in a list of a layer when the layer was freed is marked dangling.   *)
(* A call that reads, writes or frees freed memory has undefined           *)
(* behaviour: it goes unnoticed, or the compositor crashes.                *)
(***************************************************************************)
EXTENDS Integers, Sequences, FiniteSets, TLC

(***************************************************************************)
(* Bounds of the model.                                                    *)
(***************************************************************************)
MaxLayers == 2
MaxSurfaces == 2
MaxScreens == 2
MaxOrderLen == 2
MaxCalls == 4
MaxCommits == 3
MaxPropertyCalls == 3
MaxPropertyCommits == 2
MaxOrderCalls == 3
MaxOrderCommits == 2
MaxRegistrations == 1
MaxRenderCalls == 4
MaxRenderCommits == 2
MaxDestroyCalls == 3
MaxDestroyCommits == 2
MaxPhaseCalls == 5
MaxPhaseCommits == 2
MaxObserverCalls == 2
MaxObserverCommits == 2
MaxObservers == 3
MaxInvalidCalls == 2
MaxInvalidCommits == 1
MaxInvalidObservers == 1
MaxShellCalls == 2
MaxShellCommits == 1
MaxOpacityCalls == 5
MaxOpacityCommits == 2
MaxScreenCalls == 3
MaxScreenCommits == 2
MaxUnregisterCalls == 1
MaxUnregisterCommits == 1
MaxUnregisterObservers == 3
MaxHierarchyCalls == 2
MaxHierarchyCommits == 2
MaxRemovalCalls == 2
MaxRemovalCommits == 1
MaxRemovalObservers == 2
MaxResources == 1
ScreenWidth == 800
ScreenHeight == 480
MaxFadeSurfaces == 1
MaxModeSurfaces == 10
MaxModeSwitches == 2
MaxWidgets == 1
ConfiguredSurfaces == {1}
ButtonIds == {1}
RandSeeds == {0, 100}

LayerIds == 1..MaxLayers
SurfaceIds == 1..MaxSurfaces
ScreenIds == 0..(MaxScreens - 1)
Callbacks == {"cb1"}
ObserverCallbacks == {"cb1", "cb2"}

(***************************************************************************)
(* Values the callers pass.                                                *)
(***************************************************************************)
Visibilities == {0, 1}
Opacities == {0, 128}
Orientations == {3}
Positions == {<<5, 7>>}
Dimensions == {<<3, 4>>}
DestinationDimensions == Dimensions \cup {<<0, 0>>}
SourceRects == {<<1, 2, 3, 4>>}
FullLayerDimensions == {<<8, 6>>}
LayerDimensions == FullLayerDimensions \cup {<<4, 2>>}
BufferDimensions == {<<8, 6>>}

(* A null pointer; ids and weston surfaces are positive. *)
NULL == 0
WestonSurfaces == {1}

(***************************************************************************)
(* enum ivi_layout_notification_mask: one bit per category.  An event mask *)
(* is the set of its bits, | is \cup and & is \cap.                        *)
(***************************************************************************)
IVI_NOTIFICATION_OPACITY == {"OPACITY"}
IVI_NOTIFICATION_SOURCE_RECT == {"SOURCE_RECT"}
IVI_NOTIFICATION_DEST_RECT == {"DEST_RECT"}
IVI_NOTIFICATION_DIMENSION == {"DIMENSION"}
IVI_NOTIFICATION_POSITION == {"POSITION"}
IVI_NOTIFICATION_ORIENTATION == {"ORIENTATION"}
IVI_NOTIFICATION_VISIBILITY == {"VISIBILITY"}
IVI_NOTIFICATION_ADD == {"ADD"}
IVI_NOTIFICATION_REMOVE == {"REMOVE"}

(***************************************************************************)
(* wl_list as a sequence.                                                  *)
(***************************************************************************)
wl_list_insert(list, elm) == <<elm>> \o list

wl_list_remove(list, elm) == SelectSeq(list, LAMBDA e : e # elm)

InList(list, elm) == \E i \in DOMAIN list : list[i] = elm

Range(list) == {list[i] : i \in DOMAIN list}

Count(list, elm) == Cardinality({i \in DOMAIN list : list[i] = elm})

(* wl_fixed_from_double(1.0) *)
wl_fixed_one == 256

(***************************************************************************)
(* init_layerProperties, init_surfaceProperties.                           *)
(***************************************************************************)
init_layerProperties(width, height) ==
    [opacity |-> wl_fixed_one,
     sourceX |-> 0, sourceY |-> 0, sourceWidth |-> width, sourceHeight |-> height,
     destX |-> 0, destY |-> 0, destWidth |-> width, destHeight |-> height,
     orientation |-> 0, visibility |-> 0]

init_surfaceProperties ==
    [opacity |-> wl_fixed_one,
     sourceX |-> 0, sourceY |-> 0, sourceWidth |-> 0, sourceHeight |-> 0,
     destX |-> 0, destY |-> 0, destWidth |-> 0, destHeight |-> 0,
     orientation |-> 0, visibility |-> 0]

(***************************************************************************)
(* The state.                                                              *)
(*   list_screen, list_layer, list_surface: the registries of ivi_layout.  *)
(*   iviscrn, ivilayer, ivisurf: the objects, by id.                       *)
(*   layer_notification, surface_notification: the global observer lists.  *)
(*   view_list: layout_layer.view_list, the composited render list.        *)
(*   trace: the callbacks and repaint requests of the last call, in order. *)
(*   ret: what the last call returned.                                     *)
(*   batch: the setter and membership calls made since the last commit.    *)
(*   applied: the batch the last call applied, when it was a commit.       *)
(*   budget: how many more such calls and commits the run makes.           *)
(*   leaked: the notification records left allocated by removed objects.   *)
(*   ivi_surface_list: the surfaces of the shell, by id.                   *)
(*   hmi_ctrl: the HMI controller module, NULL when it is not loaded.      *)
(***************************************************************************)
VARIABLES list_screen, list_layer, list_surface,
          iviscrn, ivilayer, ivisurf,
          layer_notification, surface_notification, view_list,
          trace, ret, batch, applied, budget, leaked, ivi_surface_list, hmi_ctrl

vars == <<list_screen, list_layer, list_surface, iviscrn, ivilayer, ivisurf,
          layer_notification, surface_notification, view_list,
          trace, ret, batch, applied, budget, leaked, ivi_surface_list, hmi_ctrl>>

Extend(f, k, v) == [x \in (DOMAIN f) \cup {k} |-> IF x = k THEN v ELSE f[x]]

(* A call as the batch records it: its name, the object it is made on, its *)
(* argument and its outcome: "done", "early" when it returned before its   *)
(* event-mask update, "absent" when it found nothing to unlink.            *)
Op(name, ent, arg) == [op |-> name, ent |-> ent, arg |-> arg, outcome |-> "done"]

NoProp == [none |-> 0]

(* What a call returns: a status code, or a pointer to a layer or surface. *)
Status(code) == [kind |-> "status", val |-> code]

Pointer(kind, id) == [kind |-> kind, val |-> id]

(* One callback invocation, or one repaint request. *)
Event(kind, ent, cb, mask, prop) ==
    [kind |-> kind, ent |-> ent, cb |-> cb, mask |-> mask, prop |-> prop]

(***************************************************************************)
(* create_screen: one screen per output, each inserted at the head of      *)
(* list_screen, so the last output comes first.                            *)
(***************************************************************************)
RECURSIVE create_screen(_)
create_screen(count) ==
    IF count = 0 THEN <<>>
    ELSE wl_list_insert(create_screen(count - 1), count - 1)

NewScreen ==
    [event_mask |-> {}, pending_list_layer |-> <<>>, order_list_layer |-> <<>>,
     link_to_layer |-> <<>>]

(* ivi_layout_initWithCompositor, before a run of calls setter or membership *)
(* calls, commits commits and registrations observer registrations.        *)
InitObserved(calls, commits, registrations) ==
    /\ list_screen = create_screen(MaxScreens)
    /\ list_layer = <<>>
    /\ list_surface = <<>>
    /\ iviscrn = [sc \in ScreenIds |-> NewScreen]
    /\ ivilayer = <<>>
    /\ ivisurf = <<>>
    /\ layer_notification = [list_create |-> <<>>, list_remove |-> <<>>]
    /\ surface_notification =
           [list_create |-> <<>>, list_remove |-> <<>>, list_configure |-> <<>>]
    /\ view_list = <<>>
    /\ trace = <<>>
    /\ ret = Status(0)
    /\ batch = <<>>
    /\ applied = <<>>
    /\ budget = [calls |-> calls, commits |-> commits, registrations |-> registrations]
    /\ leaked = 0
    /\ ivi_surface_list = <<>>
    /\ hmi_ctrl = NULL

InitWith(calls, commits) == InitObserved(calls, commits, MaxRegistrations)

Init == InitWith(MaxCalls, MaxCommits)

(* The compositor has crashed: it takes no further call. *)
Crashed == ret.kind = "crash"

(* The outcomes of a call: with undefined behaviour it may crash. *)
Outcomes(undefined) == IF undefined THEN {"done", "crash"} ELSE {"done"}

Crash ==
    /\ ~Crashed
    /\ ret' = [kind |-> "crash", val |-> 0]
    /\ UNCHANGED <<list_screen, list_layer, list_surface, iviscrn, ivilayer, ivisurf,
                   layer_notification, surface_notification, view_list,
                   trace, batch, applied, budget, leaked, ivi_surface_list, hmi_ctrl>>

(* A setter or membership call: it joins the batch the next commit applies. *)
Staged(call) ==
    /\ ~Crashed
    /\ budget.calls > 0
    /\ budget' = [budget EXCEPT !.calls = @ - 1]
    /\ batch' = Append(batch, call)
    /\ applied' = <<>>
    /\ UNCHANGED <<leaked, ivi_surface_list, hmi_ctrl>>

(* A request or call that takes effect at once. *)
Request ==
    /\ ~Crashed
    /\ applied' = <<>>
    /\ UNCHANGED <<batch, budget, leaked, hmi_ctrl>>

(* A call on the layout: the surfaces of the shell are not its concern. *)
Immediate ==
    /\ Request
    /\ UNCHANGED ivi_surface_list

(* The null screen pointer: screen ids start at 0. *)
NoScreen == NULL - 1

(* The null callback pointer: callbacks are named. *)
NoCallback == "null"

(* A call that returns 0 where the argument check returns -1. *)
InvalidArgument_Succeeds(name, ent, arg) ==
    /\ Staged([Op(name, ent, arg) EXCEPT !.outcome = "invalid"])
    /\ trace' = <<>>
    /\ ret' = Status(0)
    /\ UNCHANGED <<list_screen, list_layer, list_surface, iviscrn, ivilayer, ivisurf,
                   layer_notification, surface_notification, view_list>>

(* The argument check at the head of a call: a null pointer is logged and *)
(* the call returns -1.                                                   *)
InvalidArgument(name, ent, arg) ==
    /\ Staged([Op(name, ent, arg) EXCEPT !.outcome = "invalid"])
    /\ trace' = <<>>
    /\ ret' = Status(-1)
    /\ UNCHANGED <<list_screen, list_layer, list_surface, iviscrn, ivilayer, ivisurf,
                   layer_notification, surface_notification, view_list>>

RECURSIVE SumLen(_, _)
SumLen(F, ids) ==
    IF ids = {} THEN 0
    ELSE LET x == CHOOSE y \in ids : TRUE
         IN  Len(F[x].list_notification) + SumLen(F, ids \ {x})

Registered ==
    Len(layer_notification.list_create) + Len(layer_notification.list_remove)
    + Len(surface_notification.list_create) + Len(surface_notification.list_remove)
    + Len(surface_notification.list_configure)
    + SumLen(ivilayer, DOMAIN ivilayer) + SumLen(ivisurf, DOMAIN ivisurf)
    + leaked

(* A dispatch that invokes no callback. *)
Notify_Nobody(list, kind, ent) == <<>>

(* What a remove observer can find of the object it is handed: whether the *)
(* registry holds it, whether a pending or committed list holds it, and    *)
(* whether its memory is still allocated.                                  *)
Seen(registered, linked, live) ==
    [registered |-> registered, linked |-> linked, live |-> live]

(* A record of a global observer list: struct link_layerCreateNotification *)
(* and its like.                                                           *)
link_Notification(callback, userdata) == [callback |-> callback, userdata |-> userdata]

(* The callbacks of a global observer list, in list order, each with the *)
(* userdata of its record.                                               *)
Notify(list, kind, ent) ==
    [i \in DOMAIN list |-> Event(kind, ent, list[i], {}, NoProp)]

(* The callbacks of a global remove list, each handed the object as it is *)
(* at that point of the removal.                                          *)
NotifyRemoval(list, kind, ent, seen) ==
    [i \in DOMAIN list |-> Event(kind, ent, list[i], {}, seen)]

(***************************************************************************)
(* Global and per-object observer registration.                            *)
(***************************************************************************)
ivi_layout_addNotificationCreateLayer(callback, userdata) ==
    IF callback = NoCallback THEN InvalidArgument("addNotificationCreateLayer", NULL, callback)
    ELSE
    /\ Registered < budget.registrations
    /\ layer_notification' =
           [layer_notification EXCEPT !.list_create = wl_list_insert(@, link_Notification(callback, userdata))]
    /\ trace' = <<>>
    /\ Immediate
    /\ ret' = Status(0)
    /\ UNCHANGED <<list_screen, list_layer, list_surface, iviscrn, ivilayer,
                   ivisurf, surface_notification, view_list>>

ivi_layout_addNotificationRemoveLayer(callback, userdata) ==
    IF callback = NoCallback THEN InvalidArgument("addNotificationRemoveLayer", NULL, callback)
    ELSE
    /\ Registered < budget.registrations
    /\ layer_notification' =
           [layer_notification EXCEPT !.list_remove = wl_list_insert(@, link_Notification(callback, userdata))]
    /\ trace' = <<>>
    /\ Immediate
    /\ ret' = Status(0)
    /\ UNCHANGED <<list_screen, list_layer, list_surface, iviscrn, ivilayer,
                   ivisurf, surface_notification, view_list>>

ivi_layout_addNotificationCreateSurface(callback, userdata) ==
    IF callback = NoCallback THEN InvalidArgument("addNotificationCreateSurface", NULL, callback)
    ELSE
    /\ Registered < budget.registrations
    /\ surface_notification' =
           [surface_notification EXCEPT !.list_create = wl_list_insert(@, link_Notification(callback, userdata))]
    /\ trace' = <<>>
    /\ Immediate
    /\ ret' = Status(0)
    /\ UNCHANGED <<list_screen, list_layer, list_surface, iviscrn, ivilayer,
                   ivisurf, layer_notification, view_list>>

ivi_layout_addNotificationRemoveSurface(callback, userdata) ==
    IF callback = NoCallback THEN InvalidArgument("addNotificationRemoveSurface", NULL, callback)
    ELSE
    /\ Registered < budget.registrations
    /\ surface_notification' =
           [surface_notification EXCEPT !.list_remove = wl_list_insert(@, link_Notification(callback, userdata))]
    /\ trace' = <<>>
    /\ Immediate
    /\ ret' = Status(0)
    /\ UNCHANGED <<list_screen, list_layer, list_surface, iviscrn, ivilayer,
                   ivisurf, layer_notification, view_list>>

(* A removal that frees every record of the callback, whatever its userdata. *)
removeNotification_AnyUserdata(list, callback, userdata) ==
    SelectSeq(list, LAMBDA link : link.callback # callback)

(* The loop of the five ivi_layout_removeNotification functions over a     *)
(* global observer list: a record with this callback and this userdata is  *)
(* unlinked and freed, every other record stays where it is.               *)
RECURSIVE removeNotification(_, _, _)
removeNotification(list, callback, userdata) ==
    IF list = <<>> THEN <<>>
    ELSE IF Head(list).callback = callback /\ Head(list).userdata = userdata
    THEN removeNotification(Tail(list), callback, userdata)
    ELSE <<Head(list)>> \o removeNotification(Tail(list), callback, userdata)

ivi_layout_removeNotificationCreateLayer(callback, userdata) ==
    /\ Staged(Op("removeNotificationCreateLayer", callback, userdata))
    /\ layer_notification' =
           [layer_notification EXCEPT
               !.list_create = removeNotification(@, callback, userdata)]
    /\ trace' = <<>>
    /\ ret' = [kind |-> "void", val |-> 0]
    /\ UNCHANGED <<list_screen, list_layer, list_surface, iviscrn, ivilayer,
                   ivisurf, surface_notification, view_list>>

ivi_layout_removeNotificationRemoveLayer(callback, userdata) ==
    /\ Staged(Op("removeNotificationRemoveLayer", callback, userdata))
    /\ layer_notification' =
           [layer_notification EXCEPT
               !.list_remove = removeNotification(@, callback, userdata)]
    /\ trace' = <<>>
    /\ ret' = [kind |-> "void", val |-> 0]
    /\ UNCHANGED <<list_screen, list_layer, list_surface, iviscrn, ivilayer,
                   ivisurf, surface_notification, view_list>>

ivi_layout_removeNotificationCreateSurface(callback, userdata) ==
    /\ Staged(Op("removeNotificationCreateSurface", callback, userdata))
    /\ surface_notification' =
           [surface_notification EXCEPT
               !.list_create = removeNotification(@, callback, userdata)]
    /\ trace' = <<>>
    /\ ret' = [kind |-> "void", val |-> 0]
    /\ UNCHANGED <<list_screen, list_layer, list_surface, iviscrn, ivilayer,
                   ivisurf, layer_notification, view_list>>

ivi_layout_removeNotificationRemoveSurface(callback, userdata) ==
    /\ Staged(Op("removeNotificationRemoveSurface", callback, userdata))
    /\ surface_notification' =
           [surface_notification EXCEPT
               !.list_remove = removeNotification(@, callback, userdata)]
    /\ trace' = <<>>
    /\ ret' = [kind |-> "void", val |-> 0]
    /\ UNCHANGED <<list_screen, list_layer, list_surface, iviscrn, ivilayer,
                   ivisurf, layer_notification, view_list>>

ivi_layout_layerAddNotification(l, callback) ==
    IF l = NULL \/ callback = NoCallback THEN InvalidArgument("layerAddNotification", l, callback)
    ELSE
    /\ l \in DOMAIN ivilayer
    /\ Registered < budget.registrations
    /\ ivilayer' = [ivilayer EXCEPT
           ![l].list_notification = wl_list_insert(@, callback)]
    /\ trace' = <<>>
    /\ Immediate
    /\ ret' = Status(0)
    /\ UNCHANGED <<list_screen, list_layer, list_surface, iviscrn, ivisurf,
                   layer_notification, surface_notification, view_list>>

(* A surfaceAddNotification that links the record at the tail of the list. *)
surfaceAddNotification_Append(s, callback) ==
    /\ s \in DOMAIN ivisurf
    /\ Registered < budget.registrations
    /\ ivisurf' = [ivisurf EXCEPT
           ![s].list_notification = Append(@, callback)]
    /\ trace' = <<>>
    /\ Immediate
    /\ ret' = Status(0)
    /\ UNCHANGED <<list_screen, list_layer, list_surface, iviscrn, ivilayer,
                   layer_notification, surface_notification, view_list>>

ivi_layout_surfaceAddNotification(s, callback) ==
    IF s = NULL \/ callback = NoCallback THEN InvalidArgument("surfaceAddNotification", s, callback)
    ELSE
    /\ s \in DOMAIN ivisurf
    /\ Registered < budget.registrations
    /\ ivisurf' = [ivisurf EXCEPT
           ![s].list_notification = wl_list_insert(@, callback)]
    /\ trace' = <<>>
    /\ Immediate
    /\ ret' = Status(0)
    /\ UNCHANGED <<list_screen, list_layer, list_surface, iviscrn, ivilayer,
                   layer_notification, surface_notification, view_list>>

(***************************************************************************)
(* Creation.                                                               *)
(***************************************************************************)
get_layer(list, id_layer) ==
    IF InList(list, id_layer) THEN id_layer ELSE NULL

get_surface(list, id_surface) ==
    IF InList(list, id_surface) THEN id_surface ELSE NULL

NewLayer(width, height) ==
    [prop |-> init_layerProperties(width, height),
     pending_prop |-> init_layerProperties(width, height),
     event_mask |-> {},
     pending_list_surface |-> <<>>,
     order_list_surface |-> <<>>,
     list_notification |-> <<>>,
     list_screen |-> <<>>,
     link_to_surface |-> <<>>]

(* A layerCreateWithDimension that allocates without looking the id up. *)
layerCreateWithDimension_NoLookup(id_layer, width, height) ==
    /\ Immediate
    /\ ivilayer' = IF id_layer \in DOMAIN ivilayer
                   THEN [ivilayer EXCEPT ![id_layer] = NewLayer(width, height)]
                   ELSE Extend(ivilayer, id_layer, NewLayer(width, height))
    /\ list_layer' = wl_list_insert(list_layer, id_layer)
    /\ trace' = Notify(layer_notification.list_create, "layer_create", id_layer)
    /\ ret' = Pointer("layer", id_layer)
    /\ UNCHANGED <<list_screen, list_surface, iviscrn, ivisurf,
                   layer_notification, surface_notification, view_list>>

ivi_layout_layerCreateWithDimension(id_layer, width, height) ==
    /\ Immediate
    /\ IF get_layer(list_layer, id_layer) # NULL
       THEN /\ ret' = Pointer("layer", get_layer(list_layer, id_layer))
            /\ trace' = <<>>
            /\ UNCHANGED <<list_layer, ivilayer>>
       ELSE /\ ivilayer' = Extend(ivilayer, id_layer, NewLayer(width, height))
            /\ list_layer' = wl_list_insert(list_layer, id_layer)
            /\ trace' = Notify(layer_notification.list_create, "layer_create", id_layer)
            /\ ret' = Pointer("layer", id_layer)
    /\ UNCHANGED <<list_screen, list_surface, iviscrn, ivisurf,
                   layer_notification, surface_notification, view_list>>

(* weston_view_create gives the view alpha 1.0; alpha is kept in 1/65536. *)
NewSurface(wl_surface) ==
    [prop |-> init_surfaceProperties,
     pending_prop |-> init_surfaceProperties,
     event_mask |-> {},
     list_notification |-> <<>>,
     list_layer |-> <<>>,
     pending_dangling |-> FALSE,
     order_dangling |-> FALSE,
     surface |-> wl_surface,
     view |-> wl_surface,
     view_alpha |-> wl_fixed_one * wl_fixed_one,
     scaling |-> [sx |-> <<1, 1>>, sy |-> <<1, 1>>],
     buffer_width |-> 0,
     buffer_height |-> 0]

(* A binding that starts the surface afresh, as a first creation does. *)
ivi_layout_surfaceSetNativeContent_Fresh(surf, wl_surface, width, height) ==
    NewSurface(wl_surface)

(***************************************************************************)
(* ivi_layout_surfaceSetNativeContent on a registered surface without      *)
(* content: binds wl_surface and a new view, and takes the buffer size.    *)
(***************************************************************************)
ivi_layout_surfaceSetNativeContent(surf, wl_surface, width, height) ==
    [surf EXCEPT !.surface = wl_surface,
                 !.view = wl_surface,
                 !.view_alpha = wl_fixed_one * wl_fixed_one,
                 !.buffer_width = width,
                 !.buffer_height = height]

(* width, height: wl_surface->width and wl_surface->height.  reply maps the *)
(* pointer the call returns to what its caller is left with.               *)
surfaceCreate(wl_surface, width, height, id_surface, reply) ==
    /\ Request
    /\ IF wl_surface = NULL
       THEN /\ ret' = reply[NULL]
            /\ trace' = <<>>
            /\ UNCHANGED <<list_surface, ivisurf>>
       ELSE IF get_surface(list_surface, id_surface) # NULL
       THEN IF ivisurf[id_surface].surface # NULL
            THEN /\ ret' = reply[NULL]
                 /\ trace' = <<>>
                 /\ UNCHANGED <<list_surface, ivisurf>>
            ELSE /\ ivisurf' = [ivisurf EXCEPT ![id_surface] =
                        ivi_layout_surfaceSetNativeContent(@, wl_surface, width, height)]
                 /\ trace' = Notify(surface_notification.list_create,
                                    "surface_create", id_surface)
                 /\ ret' = reply[id_surface]
                 /\ UNCHANGED list_surface
       ELSE /\ ivisurf' = Extend(ivisurf, id_surface, NewSurface(wl_surface))
            /\ list_surface' = wl_list_insert(list_surface, id_surface)
            /\ trace' = Notify(surface_notification.list_create,
                               "surface_create", id_surface)
            /\ ret' = reply[id_surface]
    /\ UNCHANGED <<list_screen, list_layer, iviscrn, ivilayer,
                   layer_notification, surface_notification, view_list>>

(* The call as the layout interface exports it: the caller gets the pointer. *)
ivi_layout_surfaceCreate(wl_surface, width, height, id_surface) ==
    /\ surfaceCreate(wl_surface, width, height, id_surface,
                     [p \in {NULL, id_surface} |-> Pointer("surface", p)])
    /\ UNCHANGED ivi_surface_list

(***************************************************************************)
(* ivi_application::surface_create of the shell.  A weston surface has a   *)
(* role (its configure is set) from the request that binds it until        *)
(* surface_destroy: that is, while it is the content of a layout surface.  *)
(* The client is answered with a protocol error, a warning event, or an    *)
(* ivi_surface bound to the layout surface.                                *)
(***************************************************************************)
(* The ivi_shell_surface of the list with this id, or a zeroed new one.  Its *)
(* resources are the ivi_surface objects of clients that carry it.         *)
is_surf_in_surfaces(list_surf, id_surface) ==
    IF id_surface \in DOMAIN list_surf THEN list_surf[id_surface]
    ELSE [surface |-> NULL, destroyed |-> FALSE, resources |-> 0]

(* The shell surface bound to the weston surface, under one more resource. *)
ivi_shell_surface(shsurf, weston_surface) ==
    [surface |-> weston_surface, destroyed |-> FALSE, resources |-> shsurf.resources + 1]

configure(weston_surface) ==
    \E s \in DOMAIN ivisurf : ivisurf[s].surface = weston_surface

warning_strings ==
    [warn_idx \in {0, 1} |->
        IF warn_idx = 0 THEN "IVI_SURFACE_WARNING_CODE_INVALID_WL_SURFACE"
        ELSE "IVI_SURFACE_WARNING_CODE_IVI_ID_IN_USE"]

(* A request that is answered as if the surface had been created. *)
application_surface_create_NoWarning(weston_surface, width, height, id_surface) ==
    /\ surfaceCreate(weston_surface, width, height, id_surface,
           [p \in {NULL, id_surface} |-> [kind |-> "ivi_surface", val |-> id_surface]])
    /\ UNCHANGED ivi_surface_list

application_surface_create(weston_surface, width, height, id_surface) ==
    IF weston_surface = NULL
    THEN /\ Immediate
         /\ trace' = <<>>
         /\ ret' = [kind |-> "warning", val |-> warning_strings[0]]
         /\ UNCHANGED <<list_screen, list_layer, list_surface, iviscrn, ivilayer,
                        ivisurf, layer_notification, surface_notification, view_list>>
    ELSE IF configure(weston_surface)
    THEN /\ Immediate
         /\ trace' = <<>>
         /\ ret' = [kind |-> "error", val |-> "WL_DISPLAY_ERROR_INVALID_OBJECT"]
         /\ UNCHANGED <<list_screen, list_layer, list_surface, iviscrn, ivilayer,
                        ivisurf, layer_notification, surface_notification, view_list>>
    ELSE /\ is_surf_in_surfaces(ivi_surface_list, id_surface).resources < MaxResources
            \/ /\ get_surface(list_surface, id_surface) # NULL
               /\ ivisurf[id_surface].surface # NULL
         /\ surfaceCreate(weston_surface, width, height, id_surface,
                [layout_surface \in {NULL, id_surface} |->
                    IF layout_surface = NULL
                    THEN [kind |-> "warning", val |-> warning_strings[1]]
                    ELSE [kind |-> "ivi_surface", val |-> id_surface]])
         /\ ivi_surface_list' =
                IF ret'.kind = "warning" THEN ivi_surface_list
                ELSE Extend(ivi_surface_list, id_surface,
                            ivi_shell_surface(is_surf_in_surfaces(ivi_surface_list, id_surface),
                                              weston_surface))

ivi_layout_surfaceConfigure(s, width, height) ==
    /\ s \in DOMAIN ivisurf
    /\ ivisurf' = [ivisurf EXCEPT ![s].buffer_width = width,
                                  ![s].buffer_height = height]
    /\ trace' = Notify(surface_notification.list_configure, "surface_configure", s)
    /\ Immediate
    /\ ret' = Status(0)
    /\ UNCHANGED <<list_screen, list_layer, list_surface, iviscrn, ivilayer,
                   layer_notification, surface_notification, view_list>>

(***************************************************************************)
(* ivi_layout_surfaceSetNativeContent(NULL, 0, 0, id_surface): unbinds the *)
(* content of the layout surface with that id.  weston_view_destroy takes  *)
(* the view off the view list.  The layout surface stays registered.       *)
(***************************************************************************)
UnsetNativeContent(s) ==
    /\ IF get_surface(list_surface, s) = NULL
       THEN /\ ret' = Status(-1)
            /\ UNCHANGED <<ivisurf, view_list>>
       ELSE IF ivisurf[s].surface # NULL
       THEN /\ ivisurf' = [ivisurf EXCEPT ![s].surface = NULL, ![s].view = NULL]
            /\ view_list' = wl_list_remove(view_list, s)
            /\ ret' = Status(0)
       ELSE /\ ret' = Status(0)
            /\ UNCHANGED <<ivisurf, view_list>>
    /\ trace' = <<>>
    /\ UNCHANGED <<list_screen, list_layer, list_surface, iviscrn, ivilayer,
                   layer_notification, surface_notification>>

(* The call as the layout interface exports it. *)
ivi_layout_surfaceUnsetNativeContent(s) ==
    /\ Immediate
    /\ UnsetNativeContent(s)

(***************************************************************************)
(* surface_destroy of the shell: the client destroys its ivi_surface, and  *)
(* the content of the layout surface with that id is unbound.  The handler *)
(* first clears configure through ivisurf->surface, whatever that pointer  *)
(* leads to.                                                               *)
(***************************************************************************)
surface_destroy(s) ==
    /\ s \in DOMAIN ivi_surface_list
    /\ ivi_surface_list[s].resources > 0
    /\ \E outcome \in Outcomes(\/ ivi_surface_list[s].surface = NULL
                                \/ ivi_surface_list[s].destroyed) :
           IF outcome = "crash" THEN Crash
           ELSE /\ Request
                /\ ivi_surface_list' =
                       [ivi_surface_list EXCEPT
                           ![s] = [surface |-> NULL, destroyed |-> FALSE,
                                   resources |-> @.resources - 1]]
                /\ UnsetNativeContent(s)

(***************************************************************************)
(* Setters: each writes the pending properties and ORs its bit into the    *)
(* event mask of the object.                                               *)
(***************************************************************************)
(* A layerSetVisibility that also flags the surfaces pending in the layer. *)
layerSetVisibility_FlagsSurfaces(l, newVisibility) ==
    /\ l \in DOMAIN ivilayer
    /\ Staged(Op("layerSetVisibility", l, newVisibility))
    /\ ivilayer' = [ivilayer EXCEPT
           ![l].pending_prop.visibility = newVisibility,
           ![l].event_mask = @ \cup IVI_NOTIFICATION_VISIBILITY]
    /\ ivisurf' = [s \in DOMAIN ivisurf |->
           IF InList(ivilayer[l].pending_list_surface, s)
           THEN [ivisurf[s] EXCEPT !.event_mask = @ \cup IVI_NOTIFICATION_VISIBILITY]
           ELSE ivisurf[s]]
    /\ trace' = <<>>
    /\ ret' = Status(0)
    /\ UNCHANGED <<list_screen, list_layer, list_surface, iviscrn,
                   layer_notification, surface_notification, view_list>>

ivi_layout_layerSetVisibility(l, newVisibility) ==
    IF l = NULL THEN InvalidArgument("layerSetVisibility", l, NULL)
    ELSE
    /\ l \in DOMAIN ivilayer
    /\ Staged(Op("layerSetVisibility", l, newVisibility))
    /\ ivilayer' = [ivilayer EXCEPT
           ![l].pending_prop.visibility = newVisibility,
           ![l].event_mask = @ \cup IVI_NOTIFICATION_VISIBILITY]
    /\ trace' = <<>>
    /\ ret' = Status(0)
    /\ UNCHANGED <<list_screen, list_layer, list_surface, iviscrn, ivisurf,
                   layer_notification, surface_notification, view_list>>

(* A layerSetOpacity that forgets the event mask. *)
layerSetOpacity_NoMask(l, opacity) ==
    /\ l \in DOMAIN ivilayer
    /\ Staged(Op("layerSetOpacity", l, opacity))
    /\ ivilayer' = [ivilayer EXCEPT ![l].pending_prop.opacity = opacity]
    /\ trace' = <<>>
    /\ ret' = Status(0)
    /\ UNCHANGED <<list_screen, list_layer, list_surface, iviscrn, ivisurf,
                   layer_notification, surface_notification, view_list>>

ivi_layout_layerSetOpacity(l, opacity) ==
    IF l = NULL THEN InvalidArgument("layerSetOpacity", l, NULL)
    ELSE
    /\ l \in DOMAIN ivilayer
    /\ Staged(Op("layerSetOpacity", l, opacity))
    /\ ivilayer' = [ivilayer EXCEPT
           ![l].pending_prop.opacity = opacity,
           ![l].event_mask = @ \cup IVI_NOTIFICATION_OPACITY]
    /\ trace' = <<>>
    /\ ret' = Status(0)
    /\ UNCHANGED <<list_screen, list_layer, list_surface, iviscrn, ivisurf,
                   layer_notification, surface_notification, view_list>>

ivi_layout_layerSetSourceRectangle(l, x, y, width, height) ==
    IF l = NULL THEN InvalidArgument("layerSetSourceRectangle", l, NULL)
    ELSE
    /\ l \in DOMAIN ivilayer
    /\ Staged(Op("layerSetSourceRectangle", l, <<x, y, width, height>>))
    /\ ivilayer' = [ivilayer EXCEPT
           ![l].pending_prop.sourceX = x,
           ![l].pending_prop.sourceY = y,
           ![l].pending_prop.sourceWidth = width,
           ![l].pending_prop.sourceHeight = height,
           ![l].event_mask = @ \cup IVI_NOTIFICATION_SOURCE_RECT]
    /\ trace' = <<>>
    /\ ret' = Status(0)
    /\ UNCHANGED <<list_screen, list_layer, list_surface, iviscrn, ivisurf,
                   layer_notification, surface_notification, view_list>>

ivi_layout_layerSetDestinationRectangle(l, x, y, width, height) ==
    IF l = NULL THEN InvalidArgument("layerSetDestinationRectangle", l, NULL)
    ELSE
    /\ l \in DOMAIN ivilayer
    /\ Staged(Op("layerSetDestinationRectangle", l, <<x, y, width, height>>))
    /\ ivilayer' = [ivilayer EXCEPT
           ![l].pending_prop.destX = x,
           ![l].pending_prop.destY = y,
           ![l].pending_prop.destWidth = width,
           ![l].pending_prop.destHeight = height,
           ![l].event_mask = @ \cup IVI_NOTIFICATION_DEST_RECT]
    /\ trace' = <<>>
    /\ ret' = Status(0)
    /\ UNCHANGED <<list_screen, list_layer, list_surface, iviscrn, ivisurf,
                   layer_notification, surface_notification, view_list>>

ivi_layout_layerSetDimension(l, pDimension) ==
    IF l = NULL THEN InvalidArgument("layerSetDimension", l, NULL)
    ELSE
    /\ l \in DOMAIN ivilayer
    /\ Staged(Op("layerSetDimension", l, pDimension))
    /\ ivilayer' = [ivilayer EXCEPT
           ![l].pending_prop.destWidth = pDimension[1],
           ![l].pending_prop.destHeight = pDimension[2],
           ![l].event_mask = @ \cup IVI_NOTIFICATION_DIMENSION]
    /\ trace' = <<>>
    /\ ret' = Status(0)
    /\ UNCHANGED <<list_screen, list_layer, list_surface, iviscrn, ivisurf,
                   layer_notification, surface_notification, view_list>>

ivi_layout_layerSetPosition(l, pPosition) ==
    IF l = NULL THEN InvalidArgument("layerSetPosition", l, NULL)
    ELSE
    /\ l \in DOMAIN ivilayer
    /\ Staged(Op("layerSetPosition", l, pPosition))
    /\ ivilayer' = [ivilayer EXCEPT
           ![l].pending_prop.destX = pPosition[1],
           ![l].pending_prop.destY = pPosition[2],
           ![l].event_mask = @ \cup IVI_NOTIFICATION_POSITION]
    /\ trace' = <<>>
    /\ ret' = Status(0)
    /\ UNCHANGED <<list_screen, list_layer, list_surface, iviscrn, ivisurf,
                   layer_notification, surface_notification, view_list>>

(* The chroma key setters are not implemented: they ignore both arguments, *)
(* the null ones too, and return 0.                                        *)
ivi_layout_layerSetChromaKey(l, pColor) ==
    /\ Staged(Op("layerSetChromaKey", l, pColor))
    /\ trace' = <<>>
    /\ ret' = Status(0)
    /\ UNCHANGED <<list_screen, list_layer, list_surface, iviscrn, ivilayer, ivisurf,
                   layer_notification, surface_notification, view_list>>

ivi_layout_surfaceSetChromaKey(s, pColor) ==
    /\ Staged(Op("surfaceSetChromaKey", s, pColor))
    /\ trace' = <<>>
    /\ ret' = Status(0)
    /\ UNCHANGED <<list_screen, list_layer, list_surface, iviscrn, ivilayer, ivisurf,
                   layer_notification, surface_notification, view_list>>

ivi_layout_layerSetOrientation(l, orientation) ==
    IF l = NULL THEN InvalidArgument("layerSetOrientation", l, NULL)
    ELSE
    /\ l \in DOMAIN ivilayer
    /\ Staged(Op("layerSetOrientation", l, orientation))
    /\ ivilayer' = [ivilayer EXCEPT
           ![l].pending_prop.orientation = orientation,
           ![l].event_mask = @ \cup IVI_NOTIFICATION_ORIENTATION]
    /\ trace' = <<>>
    /\ ret' = Status(0)
    /\ UNCHANGED <<list_screen, list_layer, list_surface, iviscrn, ivisurf,
                   layer_notification, surface_notification, view_list>>

ivi_layout_surfaceSetVisibility(s, newVisibility) ==
    IF s = NULL THEN InvalidArgument("surfaceSetVisibility", s, NULL)
    ELSE
    /\ s \in DOMAIN ivisurf
    /\ Staged(Op("surfaceSetVisibility", s, newVisibility))
    /\ ivisurf' = [ivisurf EXCEPT
           ![s].pending_prop.visibility = newVisibility,
           ![s].event_mask = @ \cup IVI_NOTIFICATION_VISIBILITY]
    /\ trace' = <<>>
    /\ ret' = Status(0)
    /\ UNCHANGED <<list_screen, list_layer, list_surface, iviscrn, ivilayer,
                   layer_notification, surface_notification, view_list>>

(* A surfaceSetOpacity that writes through to the current copy. *)
surfaceSetOpacity_WritesCurrent(s, opacity) ==
    /\ s \in DOMAIN ivisurf
    /\ Staged(Op("surfaceSetOpacity", s, opacity))
    /\ ivisurf' = [ivisurf EXCEPT
           ![s].pending_prop.opacity = opacity,
           ![s].prop.opacity = opacity,
           ![s].event_mask = @ \cup IVI_NOTIFICATION_OPACITY]
    /\ trace' = <<>>
    /\ ret' = Status(0)
    /\ UNCHANGED <<list_screen, list_layer, list_surface, iviscrn, ivilayer,
                   layer_notification, surface_notification, view_list>>

ivi_layout_surfaceSetOpacity(s, opacity) ==
    IF s = NULL THEN InvalidArgument("surfaceSetOpacity", s, NULL)
    ELSE
    /\ s \in DOMAIN ivisurf
    /\ Staged(Op("surfaceSetOpacity", s, opacity))
    /\ ivisurf' = [ivisurf EXCEPT
           ![s].pending_prop.opacity = opacity,
           ![s].event_mask = @ \cup IVI_NOTIFICATION_OPACITY]
    /\ trace' = <<>>
    /\ ret' = Status(0)
    /\ UNCHANGED <<list_screen, list_layer, list_surface, iviscrn, ivilayer,
                   layer_notification, surface_notification, view_list>>

ivi_layout_surfaceSetSourceRectangle(s, x, y, width, height) ==
    IF s = NULL THEN InvalidArgument("surfaceSetSourceRectangle", s, NULL)
    ELSE
    /\ s \in DOMAIN ivisurf
    /\ Staged(Op("surfaceSetSourceRectangle", s, <<x, y, width, height>>))
    /\ ivisurf' = [ivisurf EXCEPT
           ![s].pending_prop.sourceX = x,
           ![s].pending_prop.sourceY = y,
           ![s].pending_prop.sourceWidth = width,
           ![s].pending_prop.sourceHeight = height,
           ![s].event_mask = @ \cup IVI_NOTIFICATION_SOURCE_RECT]
    /\ trace' = <<>>
    /\ ret' = Status(0)
    /\ UNCHANGED <<list_screen, list_layer, list_surface, iviscrn, ivilayer,
                   layer_notification, surface_notification, view_list>>

(* A surfaceSetDestinationRectangle that flags position and dimension too. *)
surfaceSetDestinationRectangle_ExtraBits(s, x, y, width, height) ==
    /\ s \in DOMAIN ivisurf
    /\ Staged(Op("surfaceSetDestinationRectangle", s, <<x, y, width, height>>))
    /\ ivisurf' = [ivisurf EXCEPT
           ![s].pending_prop.destX = x,
           ![s].pending_prop.destY = y,
           ![s].pending_prop.destWidth = width,
           ![s].pending_prop.destHeight = height,
           ![s].event_mask = @ \cup IVI_NOTIFICATION_DEST_RECT
                               \cup IVI_NOTIFICATION_POSITION
                               \cup IVI_NOTIFICATION_DIMENSION]
    /\ trace' = <<>>
    /\ ret' = Status(0)
    /\ UNCHANGED <<list_screen, list_layer, list_surface, iviscrn, ivilayer,
                   layer_notification, surface_notification, view_list>>

ivi_layout_surfaceSetDestinationRectangle(s, x, y, width, height) ==
    IF s = NULL THEN InvalidArgument("surfaceSetDestinationRectangle", s, NULL)
    ELSE
    /\ s \in DOMAIN ivisurf
    /\ Staged(Op("surfaceSetDestinationRectangle", s, <<x, y, width, height>>))
    /\ ivisurf' = [ivisurf EXCEPT
           ![s].pending_prop.destX = x,
           ![s].pending_prop.destY = y,
           ![s].pending_prop.destWidth = width,
           ![s].pending_prop.destHeight = height,
           ![s].event_mask = @ \cup IVI_NOTIFICATION_DEST_RECT]
    /\ trace' = <<>>
    /\ ret' = Status(0)
    /\ UNCHANGED <<list_screen, list_layer, list_surface, iviscrn, ivilayer,
                   layer_notification, surface_notification, view_list>>

ivi_layout_surfaceSetDimension(s, pDimension) ==
    IF s = NULL THEN InvalidArgument("surfaceSetDimension", s, NULL)
    ELSE
    /\ s \in DOMAIN ivisurf
    /\ Staged(Op("surfaceSetDimension", s, pDimension))
    /\ ivisurf' = [ivisurf EXCEPT
           ![s].pending_prop.destWidth = pDimension[1],
           ![s].pending_prop.destHeight = pDimension[2],
           ![s].event_mask = @ \cup IVI_NOTIFICATION_DIMENSION]
    /\ trace' = <<>>
    /\ ret' = Status(0)
    /\ UNCHANGED <<list_screen, list_layer, list_surface, iviscrn, ivilayer,
                   layer_notification, surface_notification, view_list>>

ivi_layout_surfaceSetPosition(s, pPosition) ==
    IF s = NULL THEN InvalidArgument("surfaceSetPosition", s, NULL)
    ELSE
    /\ s \in DOMAIN ivisurf
    /\ Staged(Op("surfaceSetPosition", s, pPosition))
    /\ ivisurf' = [ivisurf EXCEPT
           ![s].pending_prop.destX = pPosition[1],
           ![s].pending_prop.destY = pPosition[2],
           ![s].event_mask = @ \cup IVI_NOTIFICATION_POSITION]
    /\ trace' = <<>>
    /\ ret' = Status(0)
    /\ UNCHANGED <<list_screen, list_layer, list_surface, iviscrn, ivilayer,
                   layer_notification, surface_notification, view_list>>

ivi_layout_surfaceSetOrientation(s, orientation) ==
    IF s = NULL THEN InvalidArgument("surfaceSetOrientation", s, NULL)
    ELSE
    /\ s \in DOMAIN ivisurf
    /\ Staged(Op("surfaceSetOrientation", s, orientation))
    /\ ivisurf' = [ivisurf EXCEPT
           ![s].pending_prop.orientation = orientation,
           ![s].event_mask = @ \cup IVI_NOTIFICATION_ORIENTATION]
    /\ trace' = <<>>
    /\ ret' = Status(0)
    /\ UNCHANGED <<list_screen, list_layer, list_surface, iviscrn, ivilayer,
                   layer_notification, surface_notification, view_list>>

(***************************************************************************)
(* Getters: each reads the current properties.                             *)
(***************************************************************************)
ivi_layout_getPropertiesOfLayer(l) == ivilayer[l].prop

ivi_layout_layerGetVisibility(l) == ivilayer[l].prop.visibility

ivi_layout_layerGetOpacity(l) == ivilayer[l].prop.opacity

ivi_layout_layerGetDimension(l) == <<ivilayer[l].prop.destX, ivilayer[l].prop.destY>>

ivi_layout_layerGetPosition(l) == <<ivilayer[l].prop.destX, ivilayer[l].prop.destY>>

ivi_layout_layerGetOrientation(l) == ivilayer[l].prop.orientation

ivi_layout_getPropertiesOfSurface(s) == ivisurf[s].prop

ivi_layout_surfaceGetVisibility(s) == ivisurf[s].prop.visibility

ivi_layout_surfaceGetOpacity(s) == ivisurf[s].prop.opacity

ivi_layout_surfaceGetDimension(s) ==
    <<ivisurf[s].prop.destWidth, ivisurf[s].prop.destHeight>>

ivi_layout_surfaceGetPosition(s) == <<ivisurf[s].prop.destX, ivisurf[s].prop.destY>>

ivi_layout_surfaceGetOrientation(s) == ivisurf[s].prop.orientation

(* The hierarchy queries: the committed order of a layer, front to back of *)
(* order.list_surface, and the back-links of a surface.                    *)
ivi_layout_getSurfacesOnLayer(l) == ivilayer[l].order_list_surface

(* The layers the back-link records of the surface lead to; the entry of  *)
(* a freed record still holds the layer it led to.                        *)
ivi_layout_getLayersUnderSurface(s) ==
    [i \in DOMAIN ivisurf[s].list_layer |-> ivisurf[s].list_layer[i].ivilayer]

ivi_layout_getScreensUnderLayer(l) == ivilayer[l].list_screen

(***************************************************************************)
(* Membership of surfaces in layers.                                       *)
(***************************************************************************)
is_surface_in_layer(s, l) == InList(ivilayer[l].pending_list_surface, s)

is_layer_in_screen(l, sc) == InList(iviscrn[sc].pending_list_layer, l)

(* An unlinking that flags the layer whose pending list held the surface. *)
RemovePendingSurface_Flagging(L, s) ==
    [x \in DOMAIN L |->
        [L[x] EXCEPT !.pending_list_surface = wl_list_remove(@, s),
                     !.event_mask = IF InList(L[x].pending_list_surface, s)
                                    THEN @ \cup IVI_NOTIFICATION_REMOVE ELSE @]]

(* wl_list_remove(&ivisurf->pending.link): out of the pending list holding it. *)
RemovePendingSurface(L, s) ==
    [x \in DOMAIN L |-> [L[x] EXCEPT !.pending_list_surface = wl_list_remove(@, s)]]

(* wl_list_remove(&ivilayer->pending.link) *)
RemovePendingLayer(SC, l) ==
    [x \in DOMAIN SC |-> [SC[x] EXCEPT !.pending_list_layer = wl_list_remove(@, l)]]

(* A layerAddSurface that links the surface in without unlinking it first. *)
layerAddSurface_NoUnlink(l, addsurf) ==
    /\ l \in DOMAIN ivilayer
    /\ addsurf \in DOMAIN ivisurf
    /\ Staged(Op("layerAddSurface", l, addsurf))
    /\ ivilayer' = [ivilayer EXCEPT
           ![l].pending_list_surface = wl_list_insert(@, addsurf),
           ![l].event_mask = @ \cup IVI_NOTIFICATION_ADD]
    /\ trace' = <<>>
    /\ ret' = Status(0)
    /\ UNCHANGED <<list_screen, list_layer, list_surface, iviscrn, ivisurf,
                   layer_notification, surface_notification, view_list>>

(* A layerAddSurface that flags the add before it looks for the surface. *)
layerAddSurface_FlagsFirst(l, addsurf) ==
    /\ l \in DOMAIN ivilayer
    /\ addsurf \in DOMAIN ivisurf
    /\ Staged([Op("layerAddSurface", l, addsurf) EXCEPT
                  !.outcome = IF is_surface_in_layer(addsurf, l) THEN "early" ELSE "done"])
    /\ IF is_surface_in_layer(addsurf, l)
       THEN ivilayer' = [ivilayer EXCEPT ![l].event_mask = @ \cup IVI_NOTIFICATION_ADD]
       ELSE ivilayer' =
                [RemovePendingSurface(ivilayer, addsurf) EXCEPT
                    ![l].pending_list_surface = wl_list_insert(@, addsurf),
                    ![l].event_mask = @ \cup IVI_NOTIFICATION_ADD]
    /\ trace' = <<>>
    /\ ret' = Status(0)
    /\ UNCHANGED <<list_screen, list_layer, list_surface, iviscrn, ivisurf,
                   layer_notification, surface_notification, view_list>>

(* wl_list_remove(&ivisurf->pending.link) writes to the neighbours of the  *)
(* link: to freed memory when the link was left in a freed layer.          *)
UnlinkPending(S, surfs) ==
    [s \in DOMAIN S |->
        IF s \in surfs THEN [S[s] EXCEPT !.pending_dangling = FALSE] ELSE S[s]]

ivi_layout_layerAddSurface(l, addsurf) ==
    IF l = NULL \/ addsurf = NULL THEN InvalidArgument("layerAddSurface", l, addsurf)
    ELSE
    /\ l \in DOMAIN ivilayer
    /\ addsurf \in DOMAIN ivisurf
    /\ \E outcome \in Outcomes(~is_surface_in_layer(addsurf, l) /\
                                ivisurf[addsurf].pending_dangling) :
           IF outcome = "crash" THEN Crash
           ELSE /\ Staged([Op("layerAddSurface", l, addsurf) EXCEPT
                             !.outcome = IF is_surface_in_layer(addsurf, l)
                                         THEN "early" ELSE "done"])
                /\ IF is_surface_in_layer(addsurf, l)
                   THEN UNCHANGED <<ivilayer, ivisurf>>
                   ELSE /\ ivilayer' =
                               [RemovePendingSurface(ivilayer, addsurf) EXCEPT
                                   ![l].pending_list_surface = wl_list_insert(@, addsurf),
                                   ![l].event_mask = @ \cup IVI_NOTIFICATION_ADD]
                        /\ ivisurf' = UnlinkPending(ivisurf, {addsurf})
                /\ trace' = <<>>
                /\ ret' = Status(0)
                /\ UNCHANGED <<list_screen, list_layer, list_surface, iviscrn,
                               layer_notification, surface_notification, view_list>>

ivi_layout_layerRemoveSurface(l, remsurf) ==
    IF l = NULL \/ remsurf = NULL THEN InvalidArgument("layerRemoveSurface", l, remsurf)
    ELSE
    /\ l \in DOMAIN ivilayer
    /\ remsurf \in DOMAIN ivisurf
    /\ Staged([Op("layerRemoveSurface", l, remsurf) EXCEPT
                  !.outcome = IF is_surface_in_layer(remsurf, l) THEN "done" ELSE "absent"])
    /\ ivilayer' = [ivilayer EXCEPT
           ![l].pending_list_surface = wl_list_remove(@, remsurf),
           ![l].event_mask = @ \cup IVI_NOTIFICATION_REMOVE]
    /\ trace' = <<>>
    /\ ret' = Status(0)
    /\ UNCHANGED <<list_screen, list_layer, list_surface, iviscrn, ivisurf,
                   layer_notification, surface_notification, view_list>>

(***************************************************************************)
(* An array argument: a null pointer, or the elements in order.            *)
(***************************************************************************)
NullArray == [null |-> TRUE, elems |-> <<>>]

Array(elems) == [null |-> FALSE, elems |-> elems]

RECURSIVE SeqsUpTo(_, _)
SeqsUpTo(S, n) ==
    IF n = 0 THEN {<<>>}
    ELSE LET shorter == SeqsUpTo(S, n - 1)
         IN  shorter \cup {Append(q, x) : q \in shorter, x \in S}

Arrays(S) == {NullArray} \cup {Array(q) : q \in SeqsUpTo(S, MaxOrderLen)}

(* The loop of ivi_layout_layerSetRenderOrder over pSurface[0..number-1]. *)
RECURSIVE SetRenderOrderLoop(_, _, _)
SetRenderOrderLoop(L, l, elems) ==
    IF elems = <<>> THEN L
    ELSE SetRenderOrderLoop(
             IF InList(list_surface, Head(elems))
             THEN [RemovePendingSurface(L, Head(elems)) EXCEPT
                      ![l].pending_list_surface = wl_list_insert(@, Head(elems))]
             ELSE L,
             l, Tail(elems))

ivi_layout_layerSetRenderOrder(l, pSurface) ==
    IF l = NULL THEN InvalidArgument("layerSetRenderOrder", l, NULL)
    ELSE
    /\ l \in DOMAIN ivilayer
    /\ Range(pSurface.elems) \subseteq DOMAIN ivisurf
    /\ \E outcome \in Outcomes(\E s \in Range(pSurface.elems) :
                                    ivisurf[s].pending_dangling) :
           IF outcome = "crash" THEN Crash
           ELSE /\ Staged([Op("layerSetRenderOrder", l, pSurface) EXCEPT
                             !.outcome = IF pSurface.null THEN "early" ELSE "done"])
                /\ IF pSurface.null
                   THEN UNCHANGED ivilayer
                   ELSE ivilayer' =
                            [SetRenderOrderLoop(ivilayer, l, pSurface.elems) EXCEPT
                                ![l].event_mask = @ \cup IVI_NOTIFICATION_ADD]
                /\ ivisurf' = UnlinkPending(ivisurf, Range(pSurface.elems))
                /\ trace' = <<>>
                /\ ret' = Status(0)
                /\ UNCHANGED <<list_screen, list_layer, list_surface, iviscrn,
                               layer_notification, surface_notification, view_list>>

(***************************************************************************)
(* Membership of layers in screens.                                        *)
(***************************************************************************)
ivi_layout_screenAddLayer(sc, addlayer) ==
    IF sc = NoScreen \/ addlayer = NULL THEN InvalidArgument("screenAddLayer", sc, addlayer)
    ELSE
    /\ sc \in DOMAIN iviscrn
    /\ addlayer \in DOMAIN ivilayer
    /\ Staged([Op("screenAddLayer", sc, addlayer) EXCEPT
                  !.outcome = IF is_layer_in_screen(addlayer, sc) THEN "early" ELSE "done"])
    /\ IF is_layer_in_screen(addlayer, sc)
       THEN UNCHANGED iviscrn
       ELSE iviscrn' =
                [RemovePendingLayer(iviscrn, addlayer) EXCEPT
                    ![sc].pending_list_layer = wl_list_insert(@, addlayer),
                    ![sc].event_mask = @ \cup IVI_NOTIFICATION_ADD]
    /\ trace' = <<>>
    /\ ret' = Status(0)
    /\ UNCHANGED <<list_screen, list_layer, list_surface, ivilayer, ivisurf,
                   layer_notification, surface_notification, view_list>>

RECURSIVE ScreenSetRenderOrderLoop(_, _, _)
ScreenSetRenderOrderLoop(SC, sc, elems) ==
    IF elems = <<>> THEN SC
    ELSE ScreenSetRenderOrderLoop(
             IF InList(list_layer, Head(elems))
             THEN [RemovePendingLayer(SC, Head(elems)) EXCEPT
                      ![sc].pending_list_layer = wl_list_insert(@, Head(elems))]
             ELSE SC,
             sc, Tail(elems))

ivi_layout_screenSetRenderOrder(sc, pLayer) ==
    IF sc = NoScreen THEN InvalidArgument("screenSetRenderOrder", sc, NULL)
    ELSE
    /\ sc \in DOMAIN iviscrn
    /\ Range(pLayer.elems) \subseteq DOMAIN ivilayer
    /\ Staged([Op("screenSetRenderOrder", sc, pLayer) EXCEPT
                  !.outcome = IF pLayer.null THEN "early" ELSE "done"])
    /\ LET cleared == [iviscrn EXCEPT ![sc].pending_list_layer = <<>>]
       IN  IF pLayer.null
           THEN iviscrn' = cleared
           ELSE iviscrn' =
                    [ScreenSetRenderOrderLoop(cleared, sc, pLayer.elems) EXCEPT
                        ![sc].event_mask = @ \cup IVI_NOTIFICATION_ADD]
    /\ trace' = <<>>
    /\ ret' = Status(0)
    /\ UNCHANGED <<list_screen, list_layer, list_surface, ivilayer, ivisurf,
                   layer_notification, surface_notification, view_list>>

(***************************************************************************)
(* ivi_layout_commitChanges.  The steps work on LS = [L, S, SC, V], the    *)
(* layers, surfaces, screens and view list as they change during the call. *)
(***************************************************************************)
commit_list_surface(S) ==
    [s \in DOMAIN S |-> [S[s] EXCEPT !.prop = S[s].pending_prop]]

(* The entries of a back-link list that lead to x are of freed records. *)
MarkFreed(list, field, x) ==
    [i \in DOMAIN list |->
        IF list[i][field] = x THEN [list[i] EXCEPT !.freed = TRUE] ELSE list[i]]

AnyFreed(list) == \E i \in DOMAIN list : list[i].freed

(* wl_list_insert writes the next and prev of the element it puts in front. *)
HeadFreed(list) == list # <<>> /\ Head(list).freed

(* remove_ordersurface_from_layer: unlinks every record from list_layer    *)
(* and frees it; the record stays in the link_to_surface of its layer.  A  *)
(* record remove_link_to_surface freed before is read and freed again.     *)
remove_ordersurface_from_layer(LS, s) ==
    [LS EXCEPT
        !.ub = @ \/ AnyFreed(LS.S[s].list_layer),
        !.S[s].list_layer = <<>>,
        !.L = [x \in DOMAIN LS.L |->
                  [LS.L[x] EXCEPT !.link_to_surface = MarkFreed(@, "ivisurf", s)]]]

(* add_ordersurface_to_layer: a new record at the head of list_layer, and, *)
(* by add_link_to_surface, at the head of the link_to_surface of the layer.*)
add_ordersurface_to_layer(LS, s, l) ==
    [LS EXCEPT
        !.ub = @ \/ HeadFreed(LS.S[s].list_layer) \/ HeadFreed(LS.L[l].link_to_surface),
        !.S[s].list_layer = wl_list_insert(@, [ivilayer |-> l, freed |-> FALSE]),
        !.L[l].link_to_surface = wl_list_insert(@, [ivisurf |-> s, freed |-> FALSE])]

(* remove_link_to_surface: unlinks every record from link_to_surface and   *)
(* frees it; the record stays in the list_layer of its surface.            *)
remove_link_to_surface(LS, l) ==
    [LS EXCEPT
        !.ub = @ \/ AnyFreed(LS.L[l].link_to_surface),
        !.L[l].link_to_surface = <<>>,
        !.S = [x \in DOMAIN LS.S |->
                  [LS.S[x] EXCEPT !.list_layer = MarkFreed(@, "ivilayer", l)]]]

(* wl_list_remove(&ivisurf->order.link) of a link left in a freed layer. *)
UnlinkOrder(LS, s) ==
    [LS EXCEPT !.ub = @ \/ LS.S[s].order_dangling,
               !.S[s].order_dangling = FALSE]

(* wl_list_remove(&ivisurf->order.link): out of the order list holding it. *)
RemoveOrderSurface(L, s) ==
    [x \in DOMAIN L |-> [L[x] EXCEPT !.order_list_surface = wl_list_remove(@, s)]]

(* The first loop of commit_list_layer for one layer: empties its order list. *)
RECURSIVE LayerTeardown(_, _, _)
LayerTeardown(LS, l, old) ==
    IF old = <<>> THEN LS
    ELSE LayerTeardown(
             [remove_ordersurface_from_layer(LS, Head(old)) EXCEPT
                 !.L = RemoveOrderSurface(@, Head(old))],
             l, Tail(old))

(* A rebuild that puts each surface at the back of the order list. *)
RECURSIVE LayerRebuild_Append(_, _, _)
LayerRebuild_Append(LS, l, pend) ==
    IF pend = <<>> THEN LS
    ELSE LayerRebuild_Append(
             add_ordersurface_to_layer(
                 [UnlinkOrder(LS, Head(pend)) EXCEPT
                     !.L = [RemoveOrderSurface(@, Head(pend)) EXCEPT
                               ![l].order_list_surface = Append(@, Head(pend))]],
                 Head(pend), l),
             l, Tail(pend))

(* The second loop: the pending list, front to back, each put in front. *)
RECURSIVE LayerRebuild(_, _, _)
LayerRebuild(LS, l, pend) ==
    IF pend = <<>> THEN LS
    ELSE LayerRebuild(
             add_ordersurface_to_layer(
                 [UnlinkOrder(LS, Head(pend)) EXCEPT
                     !.L = [RemoveOrderSurface(@, Head(pend)) EXCEPT
                               ![l].order_list_surface = wl_list_insert(@, Head(pend))]],
                 Head(pend), l),
             l, Tail(pend))

commit_layer(LS, l) ==
    LET LS1 == [LS EXCEPT !.L[l].prop = LS.L[l].pending_prop]
    IN  IF LS1.L[l].event_mask \cap
               (IVI_NOTIFICATION_ADD \cup IVI_NOTIFICATION_REMOVE) = {}
        THEN LS1
        ELSE LET LS2 == LayerTeardown(LS1, l, LS1.L[l].order_list_surface)
                 LS3 == [LS2 EXCEPT !.L[l].order_list_surface = <<>>]
             IN  LayerRebuild(LS3, l, LS3.L[l].pending_list_surface)

RECURSIVE commit_list_layer(_, _)
commit_list_layer(LS, layers) ==
    IF layers = <<>> THEN LS
    ELSE commit_list_layer(commit_layer(LS, Head(layers)), Tail(layers))

(* remove_orderlayer_from_screen: unlinks every record from list_screen    *)
(* and frees it; the record stays in the link_to_layer of its screen.      *)
remove_orderlayer_from_screen(LS, l) ==
    [LS EXCEPT
        !.L[l].list_screen = <<>>,
        !.SC = [x \in DOMAIN LS.SC |->
                   [LS.SC[x] EXCEPT !.link_to_layer = MarkFreed(@, "ivilayer", l)]]]

(* add_orderlayer_to_screen: a new record at the head of list_screen, and, *)
(* by add_link_to_layer, at the head of the link_to_layer of the screen.   *)
add_orderlayer_to_screen(LS, l, sc) ==
    [LS EXCEPT
        !.ub = @ \/ HeadFreed(LS.SC[sc].link_to_layer),
        !.L[l].list_screen = wl_list_insert(@, sc),
        !.SC[sc].link_to_layer = wl_list_insert(@, [ivilayer |-> l, freed |-> FALSE])]

RECURSIVE ScreenTeardown(_, _, _)
ScreenTeardown(LS, sc, old) ==
    IF old = <<>> THEN LS
    ELSE ScreenTeardown(
             [remove_orderlayer_from_screen(LS, Head(old)) EXCEPT
                 !.SC[sc].order_list_layer = wl_list_remove(@, Head(old))],
             sc, Tail(old))

RECURSIVE ScreenRebuild(_, _, _)
ScreenRebuild(LS, sc, pend) ==
    IF pend = <<>> THEN LS
    ELSE ScreenRebuild(
             add_orderlayer_to_screen(
                 [LS EXCEPT !.SC[sc].order_list_layer = wl_list_insert(@, Head(pend))],
                 Head(pend), sc),
             sc, Tail(pend))

(* The surfaces of one layer that go on the view list, each put in front. *)
RECURSIVE ViewsOfLayer(_, _, _)
ViewsOfLayer(LS, V, surfs) ==
    IF surfs = <<>> THEN V
    ELSE LET surf == LS.S[Head(surfs)]
         IN  ViewsOfLayer(LS,
                 IF surf.prop.visibility = 0 THEN V
                 ELSE IF surf.surface = NULL \/ surf.view = NULL THEN V
                 ELSE wl_list_insert(V, Head(surfs)),
                 Tail(surfs))

(* A walk of the screen that does not look at the visibility of the layers. *)
RECURSIVE ViewsOfScreen_AnyLayer(_, _, _)
ViewsOfScreen_AnyLayer(LS, V, layers) ==
    IF layers = <<>> THEN V
    ELSE ViewsOfScreen_AnyLayer(LS,
             ViewsOfLayer(LS, V, LS.L[Head(layers)].order_list_surface),
             Tail(layers))

RECURSIVE ViewsOfScreen(_, _, _)
ViewsOfScreen(LS, V, layers) ==
    IF layers = <<>> THEN V
    ELSE ViewsOfScreen(LS,
             IF LS.L[Head(layers)].prop.visibility = 0 THEN V
             ELSE ViewsOfLayer(LS, V, LS.L[Head(layers)].order_list_surface),
             Tail(layers))

(* Only the first screen of list_screen is handled: the loop ends in break. *)
commit_list_screen(LS, screens) ==
    IF screens = <<>> THEN LS
    ELSE LET sc == Head(screens)
             LS1 == IF LS.SC[sc].event_mask \cap IVI_NOTIFICATION_ADD # {}
                    THEN LET T == ScreenTeardown(LS, sc, LS.SC[sc].order_list_layer)
                             T1 == [T EXCEPT !.SC[sc].order_list_layer = <<>>]
                             R == ScreenRebuild(T1, sc, T1.SC[sc].pending_list_layer)
                         IN  [R EXCEPT !.SC[sc].event_mask = {}]
                    ELSE LS
         IN  [LS1 EXCEPT !.V = ViewsOfScreen(LS1, <<>>, LS1.SC[sc].order_list_layer)]

update_opacity(layer, surf) ==
    IF (layer.event_mask \cap IVI_NOTIFICATION_OPACITY # {}) \/
       (surf.event_mask \cap IVI_NOTIFICATION_OPACITY # {})
    THEN IF surf.view = NULL THEN surf
         ELSE [surf EXCEPT !.view_alpha = layer.prop.opacity * surf.prop.opacity]
    ELSE surf

(* The defaulting of update_scale. *)
DefaultedSize(surf) ==
    IF surf.prop.sourceWidth = 0 /\ surf.prop.sourceHeight = 0
    THEN LET s1 == [surf EXCEPT !.prop.sourceWidth = surf.buffer_width,
                                !.prop.sourceHeight = surf.buffer_height]
         IN  IF s1.prop.destWidth = 0 /\ s1.prop.destHeight = 0
             THEN [s1 EXCEPT !.prop.destWidth = surf.buffer_width,
                             !.prop.destHeight = surf.buffer_height]
             ELSE s1
    ELSE surf

(* The scale factors sx = sw * lw and sy = sh * lh, each a quotient kept as *)
(* <<dividend, divisor>>: the quotients are taken in floating point, where  *)
(* a zero divisor gives an infinity or a NaN that goes into the matrix.    *)
update_scale(layer, surf) ==
    IF surf.view = NULL THEN surf
    ELSE LET s1 == DefaultedSize(surf)
         IN  [s1 EXCEPT !.scaling =
                 [sx |-> <<s1.prop.destWidth * layer.prop.destWidth,
                           s1.prop.sourceWidth * layer.prop.sourceWidth>>,
                  sy |-> <<s1.prop.destHeight * layer.prop.destHeight,
                           s1.prop.sourceHeight * layer.prop.sourceHeight>>]]

update_prop(layer, surf) ==
    IF (layer.event_mask \cup surf.event_mask) # {}
    THEN update_scale(layer, update_opacity(layer, surf))
    ELSE surf

RECURSIVE ChangesOfLayer(_, _, _)
ChangesOfLayer(LS, l, surfs) ==
    IF surfs = <<>> THEN LS
    ELSE ChangesOfLayer(
             [LS EXCEPT !.S[Head(surfs)] = update_prop(LS.L[l], @)],
             l, Tail(surfs))

RECURSIVE ChangesOfScreen(_, _)
ChangesOfScreen(LS, layers) ==
    IF layers = <<>> THEN LS
    ELSE ChangesOfScreen(
             ChangesOfLayer(LS, Head(layers), LS.L[Head(layers)].order_list_surface),
             Tail(layers))

RECURSIVE commit_changes(_, _)
commit_changes(LS, screens) ==
    IF screens = <<>> THEN LS
    ELSE commit_changes(
             ChangesOfScreen(LS, LS.SC[Head(screens)].order_list_layer),
             Tail(screens))

(* send_layer_prop, send_surface_prop: the callbacks of one object. *)
send_layer_prop(layer, l) ==
    [i \in DOMAIN layer.list_notification |->
        Event("layer_prop", l, layer.list_notification[i], layer.event_mask, layer.prop)]

send_surface_prop(surf, s) ==
    [i \in DOMAIN surf.list_notification |->
        Event("surface_prop", s, surf.list_notification[i], surf.event_mask, surf.prop)]

RECURSIVE SendLayers(_, _)
SendLayers(LS, layers) ==
    IF layers = <<>> THEN <<>>
    ELSE send_layer_prop(LS.L[Head(layers)], Head(layers)) \o SendLayers(LS, Tail(layers))

RECURSIVE SendSurfaces(_, _)
SendSurfaces(LS, surfs) ==
    IF surfs = <<>> THEN <<>>
    ELSE send_surface_prop(LS.S[Head(surfs)], Head(surfs)) \o SendSurfaces(LS, Tail(surfs))

(* A send_prop that serves the surfaces before the layers. *)
send_prop_SurfacesFirst(LS) ==
    SendSurfaces(LS, list_surface) \o SendLayers(LS, list_layer)

(* The callbacks of send_prop, in order. *)
send_prop(LS) == SendLayers(LS, list_layer) \o SendSurfaces(LS, list_surface)

(* The event masks after send_prop. *)
ClearMasks(F) == [x \in DOMAIN F |-> [F[x] EXCEPT !.event_mask = {}]]

(* A commit that computes the transforms before it rebuilds the lists. *)
commitChanges_TransformsFirst ==
    /\ ~Crashed
    /\ budget.commits > 0
    /\ LET LS0 == [L |-> ivilayer, S |-> commit_list_surface(ivisurf),
                   SC |-> iviscrn, V |-> view_list, ub |-> FALSE]
           LS1 == commit_changes(LS0, list_screen)
           LS2 == commit_list_layer(LS1, list_layer)
           LS3 == commit_list_screen(LS2, list_screen)
       IN  \E outcome \in Outcomes(LS3.ub) :
               IF outcome = "crash" THEN Crash
               ELSE /\ budget' = [budget EXCEPT !.commits = @ - 1]
                    /\ batch' = <<>>
                    /\ applied' = batch
                    /\ ivilayer' = ClearMasks(LS3.L)
                    /\ ivisurf' = ClearMasks(LS3.S)
                    /\ iviscrn' = LS3.SC
                    /\ view_list' = LS3.V
                    /\ trace' = send_prop(LS3) \o
                                    <<Event("repaint", NULL, "none", {}, NoProp)>>
                    /\ ret' = Status(0)
                    /\ UNCHANGED <<list_screen, list_layer, list_surface,
                                   layer_notification, surface_notification, leaked,
                                   ivi_surface_list, hmi_ctrl>>

ivi_layout_commitChanges ==
    /\ ~Crashed
    /\ budget.commits > 0
    /\ LET LS0 == [L |-> ivilayer, S |-> commit_list_surface(ivisurf),
                   SC |-> iviscrn, V |-> view_list, ub |-> FALSE]
           LS1 == commit_list_layer(LS0, list_layer)
           LS2 == commit_list_screen(LS1, list_screen)
           LS3 == commit_changes(LS2, list_screen)
       IN  \E outcome \in Outcomes(LS3.ub) :
               IF outcome = "crash" THEN Crash
               ELSE /\ budget' = [budget EXCEPT !.commits = @ - 1]
                    /\ batch' = <<>>
                    /\ applied' = batch
                    /\ ivilayer' = ClearMasks(LS3.L)
                    /\ ivisurf' = ClearMasks(LS3.S)
                    /\ iviscrn' = LS3.SC
                    /\ view_list' = LS3.V
                    /\ trace' = send_prop(LS3) \o
                                    <<Event("repaint", NULL, "none", {}, NoProp)>>
                    /\ ret' = Status(0)
                    /\ UNCHANGED <<list_screen, list_layer, list_surface,
                                   layer_notification, surface_notification, leaked,
                                   ivi_surface_list, hmi_ctrl>>

(***************************************************************************)
(* Destruction.  The object leaves the registry and the lists its own      *)
(* links are in; the notification records still linked to its              *)
(* list_notification are not freed with it.                                *)
(***************************************************************************)
Without(f, k) == [x \in (DOMAIN f) \ {k} |-> f[x]]

(* The surfaces whose links sit in the lists of the layer that is freed. *)
LeftDangling(S, layer) ==
    [s \in DOMAIN S |->
        [S[s] EXCEPT
            !.pending_dangling = @ \/ InList(layer.pending_list_surface, s),
            !.order_dangling = @ \/ InList(layer.order_list_surface, s)]]

(* wl_list_remove(&ivilayer->order.link) *)
RemoveOrderLayer(SC, l) ==
    [x \in DOMAIN SC |-> [SC[x] EXCEPT !.order_list_layer = wl_list_remove(@, l)]]

(* The layer as its remove observers find it in the registry, the screens *)
(* SC and the layers L.                                                   *)
LayerSeen(registry, SC, L, l) ==
    Seen(InList(registry, l),
         \E sc \in DOMAIN SC : \/ InList(SC[sc].pending_list_layer, l)
                               \/ InList(SC[sc].order_list_layer, l),
         l \in DOMAIN L)

(* The surface as its remove observers find it in the registry, the layers *)
(* L and the surfaces S.                                                   *)
SurfaceSeen(registry, L, S, s) ==
    Seen(InList(registry, s),
         \E l \in DOMAIN L : \/ InList(L[l].pending_list_surface, s)
                             \/ InList(L[l].order_list_surface, s),
         s \in DOMAIN S)

ivi_layout_layerRemove(l) ==
    /\ l \in DOMAIN ivilayer
    /\ LET LS0 == [L |-> ivilayer, S |-> ivisurf,
                   SC |-> RemoveOrderLayer(RemovePendingLayer(iviscrn, l), l),
                   V |-> view_list, ub |-> FALSE]
           LS1 == remove_orderlayer_from_screen(LS0, l)
           LS2 == remove_link_to_surface(LS1, l)
       IN  \E outcome \in Outcomes(LS2.ub) :
               IF outcome = "crash" THEN Crash
               ELSE /\ ~Crashed
                    /\ trace' = NotifyRemoval(layer_notification.list_remove,
                                              "layer_remove", l,
                                              LayerSeen(list_layer, iviscrn, ivilayer, l))
                    /\ list_layer' = wl_list_remove(list_layer, l)
                    /\ iviscrn' = LS2.SC
                    /\ ivisurf' = LeftDangling(LS2.S, ivilayer[l])
                    /\ ivilayer' = Without(LS2.L, l)
                    /\ leaked' = leaked + Len(ivilayer[l].list_notification)
                    /\ ret' = Status(0)
                    /\ applied' = <<>>
                    /\ UNCHANGED <<list_screen, list_surface, layer_notification,
                                   surface_notification, view_list, batch, budget,
                                   ivi_surface_list, hmi_ctrl>>

(* A removal that runs the remove observers first, as layerRemove does. *)
SurfaceRemoval_NotifyFirst(s, V, R, W) ==
    /\ s \in DOMAIN ivisurf
    /\ LET LS0 == [L |-> RemoveOrderSurface(RemovePendingSurface(ivilayer, s), s),
                   S |-> ivisurf, SC |-> iviscrn, V |-> view_list,
                   ub |-> ivisurf[s].pending_dangling \/ ivisurf[s].order_dangling]
           LS1 == remove_ordersurface_from_layer(LS0, s)
       IN  \E outcome \in Outcomes(LS1.ub) :
               IF outcome = "crash" THEN Crash
               ELSE /\ ~Crashed
                    /\ list_surface' = wl_list_remove(list_surface, s)
                    /\ ivilayer' = LS1.L
                    /\ ivisurf' = Without(LS1.S, s)
                    /\ trace' = NotifyRemoval(surface_notification.list_remove,
                                              "surface_remove", s,
                                              SurfaceSeen(list_surface, ivilayer, ivisurf, s))
                    /\ leaked' = leaked + Len(ivisurf[s].list_notification)
                    /\ ret' = R
                    /\ applied' = <<>>
                    /\ view_list' = V
                    /\ ivi_surface_list' = W
                    /\ UNCHANGED <<list_screen, list_layer, iviscrn, layer_notification,
                                   surface_notification, batch, budget, hmi_ctrl>>

(* ivi_layout_surfaceRemove; V is the view list the caller leaves, R what *)
(* the caller gets back and W the surfaces of the shell as they are then. *)
SurfaceRemoval(s, V, R, W) ==
    /\ s \in DOMAIN ivisurf
    /\ LET LS0 == [L |-> RemoveOrderSurface(RemovePendingSurface(ivilayer, s), s),
                   S |-> ivisurf, SC |-> iviscrn, V |-> view_list,
                   ub |-> ivisurf[s].pending_dangling \/ ivisurf[s].order_dangling]
           LS1 == remove_ordersurface_from_layer(LS0, s)
       IN  \E outcome \in Outcomes(LS1.ub) :
               IF outcome = "crash" THEN Crash
               ELSE /\ ~Crashed
                    /\ list_surface' = wl_list_remove(list_surface, s)
                    /\ ivilayer' = LS1.L
                    /\ ivisurf' = Without(LS1.S, s)
                    /\ trace' = NotifyRemoval(surface_notification.list_remove,
                                              "surface_remove", s,
                                              SurfaceSeen(wl_list_remove(list_surface, s),
                                                          LS1.L, LS1.S, s))
                    /\ leaked' = leaked + Len(ivisurf[s].list_notification)
                    /\ ret' = R
                    /\ applied' = <<>>
                    /\ view_list' = V
                    /\ ivi_surface_list' = W
                    /\ UNCHANGED <<list_screen, list_layer, iviscrn, layer_notification,
                                   surface_notification, batch, budget, hmi_ctrl>>

(* The view of the surface is not destroyed: it stays on the view list. *)
ivi_layout_surfaceRemove(s) == SurfaceRemoval(s, view_list, Status(0), ivi_surface_list)

(* weston_surface_destroy: the surface is freed after its destroy signal;  *)
(* the shell surfaces that point to it are not told.                       *)
weston_surface_destroy(shell_surfaces, weston_surface) ==
    [id \in DOMAIN shell_surfaces |->
        IF shell_surfaces[id].surface = weston_surface
        THEN [shell_surfaces[id] EXCEPT !.destroyed = TRUE]
        ELSE shell_surfaces[id]]

(* The destroy signal of the wl_surface bound to the surface: the content  *)
(* is cleared, the surface removed, and weston then destroys the view.     *)
(* The listener returns nothing: the status of the removal is dropped.     *)
westonsurface_destroy_from_ivisurface(s) ==
    /\ s \in DOMAIN ivisurf
    /\ ivisurf[s].surface # NULL
    /\ SurfaceRemoval(s, wl_list_remove(view_list, s), [kind |-> "void", val |-> 0],
                      weston_surface_destroy(ivi_surface_list, ivisurf[s].surface))

(***************************************************************************)
(* The calls a controller and the shell make, in any order, on the layers  *)
(* Ls, surfaces Ss and screens SCs.  Ids are symmetric, so a new object    *)
(* takes the lowest id not yet registered.                                 *)
(***************************************************************************)
Registration(Ls, Ss) ==
    \E cb \in Callbacks :
        \/ ivi_layout_addNotificationCreateLayer(cb, NULL)
        \/ \E l \in Ls : ivi_layout_layerAddNotification(l, cb)
        \/ \E s \in Ss : ivi_layout_surfaceAddNotification(s, cb)

Creation(Ls, Ds, Ss) ==
    \/ \E id \in Ls, d \in Ds :
           /\ id <= Len(list_layer) + 1
           /\ ivi_layout_layerCreateWithDimension(id, d[1], d[2])
    \/ \E id \in Ss, wl \in WestonSurfaces, d \in BufferDimensions :
           /\ id <= Len(list_surface) + 1
           /\ ivi_layout_surfaceCreate(wl, d[1], d[2], id)

Configuration(Ss) ==
    \E s \in Ss, d \in BufferDimensions : ivi_layout_surfaceConfigure(s, d[1], d[2])

LayerSetters(Ls) ==
    \E l \in Ls :
        \/ \E v \in Visibilities : ivi_layout_layerSetVisibility(l, v)
        \/ \E o \in Opacities : ivi_layout_layerSetOpacity(l, o)
        \/ \E r \in SourceRects :
               ivi_layout_layerSetSourceRectangle(l, r[1], r[2], r[3], r[4])
        \/ \E p \in Positions, d \in Dimensions :
               ivi_layout_layerSetDestinationRectangle(l, p[1], p[2], d[1], d[2])
        \/ \E d \in Dimensions : ivi_layout_layerSetDimension(l, d)
        \/ \E p \in Positions : ivi_layout_layerSetPosition(l, p)
        \/ \E o \in Orientations : ivi_layout_layerSetOrientation(l, o)

SurfaceSetters(Ss) ==
    \E s \in Ss :
        \/ \E v \in Visibilities : ivi_layout_surfaceSetVisibility(s, v)
        \/ \E o \in Opacities : ivi_layout_surfaceSetOpacity(s, o)
        \/ \E r \in SourceRects :
               ivi_layout_surfaceSetSourceRectangle(s, r[1], r[2], r[3], r[4])
        \/ \E p \in Positions, d \in DestinationDimensions :
               ivi_layout_surfaceSetDestinationRectangle(s, p[1], p[2], d[1], d[2])
        \/ \E d \in Dimensions : ivi_layout_surfaceSetDimension(s, d)
        \/ \E p \in Positions : ivi_layout_surfaceSetPosition(s, p)
        \/ \E o \in Orientations : ivi_layout_surfaceSetOrientation(s, o)

LayerMembership(Ls, Ss) ==
    \/ \E l \in Ls, s \in Ss : ivi_layout_layerAddSurface(l, s)
    \/ \E l \in Ls, s \in Ss : ivi_layout_layerRemoveSurface(l, s)
    \/ \E l \in Ls, a \in Arrays(Ss) : ivi_layout_layerSetRenderOrder(l, a)

ScreenMembership(SCs, Ls) ==
    \/ \E sc \in SCs, l \in Ls : ivi_layout_screenAddLayer(sc, l)
    \/ \E sc \in SCs, a \in Arrays(Ls) : ivi_layout_screenSetRenderOrder(sc, a)

(* Every call on every object. *)
Next ==
    \/ Registration(LayerIds, SurfaceIds)
    \/ Creation(LayerIds, LayerDimensions, SurfaceIds)
    \/ Configuration(SurfaceIds)
    \/ LayerSetters(LayerIds)
    \/ SurfaceSetters(SurfaceIds)
    \/ LayerMembership(LayerIds, SurfaceIds)
    \/ ScreenMembership(ScreenIds, LayerIds)
    \/ ivi_layout_commitChanges

Spec == Init /\ [][Next]_vars

(***************************************************************************)
(* The property store: every setter, on one layer holding one surface on   *)
(* the first screen.                                                       *)
(***************************************************************************)
NextProperty ==
    \/ Registration({1}, {1})
    \/ Creation({1}, FullLayerDimensions, {1})
    \/ Configuration({1})
    \/ LayerSetters({1})
    \/ SurfaceSetters({1})
    \/ \E l \in {1}, s \in {1} : ivi_layout_layerAddSurface(l, s)
    \/ \E sc \in {Head(list_screen)}, l \in {1} : ivi_layout_screenAddLayer(sc, l)
    \/ ivi_layout_commitChanges

SpecProperty == InitWith(MaxPropertyCalls, MaxPropertyCommits) /\ [][NextProperty]_vars

(***************************************************************************)
(* The hierarchy index: the surfaces of the layers, by every membership    *)
(* call.                                                                   *)
(***************************************************************************)
NextMembership ==
    \/ Creation(LayerIds, FullLayerDimensions, SurfaceIds)
    \/ LayerMembership(LayerIds, SurfaceIds)
    \/ ivi_layout_commitChanges

SpecMembership == InitWith(MaxOrderCalls, MaxOrderCommits) /\ [][NextMembership]_vars

(***************************************************************************)
(* The hierarchy index: surfaces added to and removed from layers one at a *)
(* time.                                                                   *)
(***************************************************************************)
NextAddRemove ==
    \/ Creation(LayerIds, FullLayerDimensions, SurfaceIds)
    \/ \E l \in LayerIds, s \in SurfaceIds : ivi_layout_layerAddSurface(l, s)
    \/ \E l \in LayerIds, s \in SurfaceIds : ivi_layout_layerRemoveSurface(l, s)
    \/ ivi_layout_commitChanges

SpecAddRemove == Init /\ [][NextAddRemove]_vars

(***************************************************************************)
(* Layer creation: a layer created and created again with other            *)
(* dimensions, between setter calls and commits, with a layer-create       *)
(* observer.                                                               *)
(***************************************************************************)
NextCreate ==
    \/ \E cb \in Callbacks : ivi_layout_addNotificationCreateLayer(cb, NULL)
    \/ \E id \in {1}, d \in LayerDimensions :
           ivi_layout_layerCreateWithDimension(id, d[1], d[2])
    \/ LayerSetters({1})
    \/ ivi_layout_commitChanges

SpecCreate == InitWith(MaxPropertyCalls, MaxPropertyCommits) /\ [][NextCreate]_vars

(***************************************************************************)
(* What the properties below speak of.                                     *)
(***************************************************************************)
(* The step is a commit. *)
IsCommit == budget'.commits # budget.commits

(* The answers of every getter of a layer and of a surface. *)
LayerGetters(l) ==
    <<ivi_layout_getPropertiesOfLayer(l), ivi_layout_layerGetVisibility(l),
      ivi_layout_layerGetOpacity(l), ivi_layout_layerGetPosition(l),
      ivi_layout_layerGetDimension(l), ivi_layout_layerGetOrientation(l)>>

SurfaceGetters(s) ==
    <<ivi_layout_getPropertiesOfSurface(s), ivi_layout_surfaceGetVisibility(s),
      ivi_layout_surfaceGetOpacity(s), ivi_layout_surfaceGetPosition(s),
      ivi_layout_surfaceGetDimension(s), ivi_layout_surfaceGetOrientation(s)>>

LayerCalls ==
    {"layerSetVisibility", "layerSetOpacity", "layerSetSourceRectangle",
     "layerSetDestinationRectangle", "layerSetDimension", "layerSetPosition",
     "layerSetOrientation", "layerAddSurface", "layerRemoveSurface",
     "layerSetRenderOrder"}

SurfaceCalls ==
    {"surfaceSetVisibility", "surfaceSetOpacity", "surfaceSetSourceRectangle",
     "surfaceSetDestinationRectangle", "surfaceSetDimension", "surfaceSetPosition",
     "surfaceSetOrientation"}

(* The calls of the batch made on layer l, on surface s, in order. *)
CallsOnLayer(l) == SelectSeq(batch, LAMBDA c : c.op \in LayerCalls /\ c.ent = l)

CallsOnSurface(s) == SelectSeq(batch, LAMBDA c : c.op \in SurfaceCalls /\ c.ent = s)

(* The category bit of a call. *)
CategoryBit(call) ==
    CASE call.op \in {"layerSetVisibility", "surfaceSetVisibility"} ->
             IVI_NOTIFICATION_VISIBILITY
      [] call.op \in {"layerSetOpacity", "surfaceSetOpacity"} ->
             IVI_NOTIFICATION_OPACITY
      [] call.op \in {"layerSetSourceRectangle", "surfaceSetSourceRectangle"} ->
             IVI_NOTIFICATION_SOURCE_RECT
      [] call.op \in {"layerSetDestinationRectangle", "surfaceSetDestinationRectangle"} ->
             IVI_NOTIFICATION_DEST_RECT
      [] call.op \in {"layerSetDimension", "surfaceSetDimension"} ->
             IVI_NOTIFICATION_DIMENSION
      [] call.op \in {"layerSetPosition", "surfaceSetPosition"} ->
             IVI_NOTIFICATION_POSITION
      [] call.op \in {"layerSetOrientation", "surfaceSetOrientation"} ->
             IVI_NOTIFICATION_ORIENTATION
      [] call.op \in {"layerAddSurface", "layerSetRenderOrder"} ->
             IVI_NOTIFICATION_ADD
      [] call.op = "layerRemoveSurface" -> IVI_NOTIFICATION_REMOVE

(* The OR of the category bits of the calls of a sequence. *)
CategoryBits(calls) == UNION {CategoryBit(calls[i]) : i \in DOMAIN calls}

(* The property-observer invocations of a trace for a layer, for a surface. *)
LayerEvents(tr, l) == SelectSeq(tr, LAMBDA e : e.kind = "layer_prop" /\ e.ent = l)

SurfaceEvents(tr, s) == SelectSeq(tr, LAMBDA e : e.kind = "surface_prop" /\ e.ent = s)

PropertyEvents(tr) == SelectSeq(tr, LAMBDA e : e.kind \in {"layer_prop", "surface_prop"})

(***************************************************************************)
(* C1: pending/current isolation.  Whatever setter, membership, creation   *)
(* or registration call is made, every getter of every live layer and      *)
(* surface answers after the call what it answered before it: only         *)
(* ivi_layout_commitChanges changes the current copy.                      *)
(***************************************************************************)
C1_PendingCurrentIsolation ==
    [][~IsCommit =>
          /\ \A l \in DOMAIN ivilayer : LayerGetters(l)' = LayerGetters(l)
          /\ \A s \in DOMAIN ivisurf : SurfaceGetters(s)' = SurfaceGetters(s)]_vars

(* After a commit made an opacity current, a setter has staged another one. *)
C1_Witness ==
    /\ budget.commits < MaxPropertyCommits
    /\ batch # <<>>
    /\ \E s \in DOMAIN ivisurf :
           /\ ivi_layout_surfaceGetOpacity(s) # wl_fixed_one
           /\ ivisurf[s].pending_prop.opacity # ivi_layout_surfaceGetOpacity(s)
    /\ \E l \in DOMAIN ivilayer :
           ivilayer[l].pending_prop # ivi_layout_getPropertiesOfLayer(l)

(***************************************************************************)
(* C2: in a commit a property observer is invoked only for an entity whose *)
(* event mask is non-zero, so a commit that follows no setter or           *)
(* membership call invokes no property observer.                           *)
(***************************************************************************)
C2_ObserversOnlyWhenMasked ==
    [][IsCommit =>
          /\ batch = <<>> => Len(PropertyEvents(trace')) = 0
          /\ \A i \in DOMAIN trace' :
                 trace'[i].kind \in {"layer_prop", "surface_prop"} =>
                     trace'[i].mask # {}]_vars

(***************************************************************************)
(* C3: when the batch a commit applies holds exactly one set-opacity call  *)
(* on a layer or surface that has one property observer, the commit        *)
(* invokes that observer exactly once, with the opacity bit in the mask    *)
(* and the new opacity in the properties.                                  *)
(***************************************************************************)
C3_OpacityObserverOnce ==
    [][IsCommit =>
          /\ \A l \in DOMAIN ivilayer :
                 LET calls == SelectSeq(CallsOnLayer(l),
                                        LAMBDA c : c.op = "layerSetOpacity")
                     evs == LayerEvents(trace', l)
                 IN  (Len(ivilayer[l].list_notification) = 1 /\ Len(calls) = 1) =>
                         /\ Len(evs) = 1
                         /\ IVI_NOTIFICATION_OPACITY \subseteq evs[1].mask
                         /\ evs[1].prop.opacity = calls[1].arg
          /\ \A s \in DOMAIN ivisurf :
                 LET calls == SelectSeq(CallsOnSurface(s),
                                        LAMBDA c : c.op = "surfaceSetOpacity")
                     evs == SurfaceEvents(trace', s)
                 IN  (Len(ivisurf[s].list_notification) = 1 /\ Len(calls) = 1) =>
                         /\ Len(evs) = 1
                         /\ IVI_NOTIFICATION_OPACITY \subseteq evs[1].mask
                         /\ evs[1].prop.opacity = calls[1].arg]_vars

(* A commit has told a layer's observer of an opacity other than the default. *)
C3_Witness ==
    \E i \in DOMAIN trace :
        /\ trace[i].kind = "layer_prop"
        /\ trace[i].mask = IVI_NOTIFICATION_OPACITY
        /\ trace[i].prop.opacity # wl_fixed_one

Effective(calls) == SelectSeq(calls, LAMBDA c : c.outcome # "early")

C5_IdempotentLayerCreate ==
    [][\A id \in LayerIds, d \in LayerDimensions :
           (/\ id \in DOMAIN ivilayer
            /\ ivi_layout_layerCreateWithDimension(id, d[1], d[2])) =>
               /\ ret' = Pointer("layer", id)
               /\ Len(list_layer') = Len(list_layer)
               /\ DOMAIN ivilayer' = DOMAIN ivilayer
               /\ ivilayer'[id].prop = ivilayer[id].prop
               /\ ivilayer'[id].pending_prop = ivilayer[id].pending_prop
               /\ Len(SelectSeq(trace', LAMBDA e : e.kind = "layer_create")) = 0]_vars

(* A layer with a create observer and staged setter calls was created again. *)
C5_Witness ==
    /\ ret.kind = "layer"
    /\ ret.val \in DOMAIN ivilayer
    /\ CallsOnLayer(ret.val) # <<>>
    /\ ivilayer[ret.val].pending_prop # ivilayer[ret.val].prop
    /\ layer_notification.list_create # <<>>
    /\ trace = <<>>

(***************************************************************************)
(* What the membership properties speak of.                                *)
(***************************************************************************)
Last(seq) == seq[Len(seq)]

NoDuplicates(seq) == \A i, j \in DOMAIN seq : seq[i] = seq[j] => i = j

(* a comes before b in the list. *)
Before(list, a, b) ==
    \E i, j \in DOMAIN list : i < j /\ list[i] = a /\ list[j] = b

(* The step is the membership call name(l, s). *)
Called(name, l, s) ==
    /\ Len(batch') = Len(batch) + 1
    /\ Last(batch').op = name
    /\ Last(batch').ent = l
    /\ Last(batch').arg = s

(* The calls end with name(l, s). *)
EndsWith(calls, name, l, s) ==
    /\ calls # <<>>
    /\ Last(calls).op = name
    /\ Last(calls).ent = l
    /\ Last(calls).arg = s

(* The calls end with name(l, a) and then name(l, b). *)
EndsWithBoth(calls, name, l, a, b) ==
    /\ Len(calls) >= 2
    /\ EndsWith(calls, name, l, b)
    /\ EndsWith(SubSeq(calls, 1, Len(calls) - 1), name, l, a)

(***************************************************************************)
(* C6: replace semantics of the render order.  When the last call before a *)
(* commit is layerSetRenderOrder(L, seq), the commit leaves exactly the    *)
(* surfaces of seq in L's committed order, each once and in the order of   *)
(* seq, and no surface outside seq reports L among its layers; for a null  *)
(* or empty seq the committed order is empty.                              *)
(***************************************************************************)
C6_RenderOrderReplaces ==
    [][\A l \in DOMAIN ivilayer :
           (/\ IsCommit
            /\ batch # <<>>
            /\ Last(batch).op = "layerSetRenderOrder"
            /\ Last(batch).ent = l) =>
               /\ Range(ivi_layout_getSurfacesOnLayer(l)') = Range(Last(batch).arg.elems)
               /\ NoDuplicates(ivi_layout_getSurfacesOnLayer(l)')
               /\ NoDuplicates(Last(batch).arg.elems) =>
                      ivi_layout_getSurfacesOnLayer(l)' = Last(batch).arg.elems
               /\ \A s \in DOMAIN ivisurf \ Range(Last(batch).arg.elems) :
                      ~InList(ivi_layout_getLayersUnderSurface(s)', l)]_vars

(***************************************************************************)
(* C7: duplicate add.  After each layerAddSurface(L, S) the surface is     *)
(* exactly once in L's pending list, and a commit whose batch ends with    *)
(* two calls layerAddSurface(L, S) leaves S exactly once in L's committed  *)
(* order.                                                                  *)
(***************************************************************************)
C7_DuplicateAddOnce ==
    [][\A l \in DOMAIN ivilayer, s \in DOMAIN ivisurf :
           /\ Called("layerAddSurface", l, s) =>
                  Count(ivilayer'[l].pending_list_surface, s) = 1
           /\ (IsCommit /\ EndsWithBoth(batch, "layerAddSurface", l, s, s)) =>
                  Count(ivi_layout_getSurfacesOnLayer(l)', s) = 1]_vars

(* A commit has applied two adds of one surface to one layer. *)
C7_Witness ==
    \E l \in DOMAIN ivilayer, s \in DOMAIN ivisurf :
        /\ EndsWithBoth(applied, "layerAddSurface", l, s, s)
        /\ Count(ivi_layout_getSurfacesOnLayer(l), s) = 1
        /\ Count(ivilayer[l].pending_list_surface, s) = 1

(***************************************************************************)
(* C8, as stated: layerAddSurface(L, S) with S already in L's pending list *)
(* leaves the pending list unchanged and sets the add bit in L's event     *)
(* mask.                                                                   *)
(***************************************************************************)
C8_DuplicateAddFlags ==
    [][\A l \in DOMAIN ivilayer, s \in DOMAIN ivisurf :
           (Called("layerAddSurface", l, s) /\ is_surface_in_layer(s, l)) =>
               /\ ivilayer'[l].pending_list_surface = ivilayer[l].pending_list_surface
               /\ IVI_NOTIFICATION_ADD \subseteq ivilayer'[l].event_mask]_vars

(***************************************************************************)
(* C8, amended: layerAddSurface(L, S) with S already in L's pending list   *)
(* returns success and changes nothing of any layer: the pending lists and *)
(* L's event mask stay as they were, so the add bit is set only if an      *)
(* earlier call of the batch set it.                                       *)
(***************************************************************************)
C8_DuplicateAddNoOp ==
    [][\A l \in DOMAIN ivilayer, s \in DOMAIN ivisurf :
           (Called("layerAddSurface", l, s) /\ is_surface_in_layer(s, l)) =>
               /\ ret' = Status(0)
               /\ ivilayer' = ivilayer
               /\ ivilayer'[l].event_mask = ivilayer[l].event_mask]_vars

(* A surface was added again after its add was committed: the mask is zero. *)
C8_Witness ==
    /\ batch # <<>>
    /\ Last(batch).op = "layerAddSurface"
    /\ Last(batch).outcome = "early"
    /\ InList(ivi_layout_getSurfacesOnLayer(Last(batch).ent), Last(batch).arg)
    /\ ivilayer[Last(batch).ent].event_mask = {}

(***************************************************************************)
(* C9, as stated: when a batch ends with layerAddSurface(L, A) and then    *)
(* layerAddSurface(L, B), for distinct surfaces that were not in L, the    *)
(* commit leaves B before A in L's committed surface order.                *)
(***************************************************************************)
C9_LastAddedFirst ==
    [][\A l \in DOMAIN ivilayer, a \in DOMAIN ivisurf, b \in DOMAIN ivisurf :
           (/\ IsCommit
            /\ a # b
            /\ EndsWithBoth(batch, "layerAddSurface", l, a, b)
            /\ Last(batch).outcome = "done"
            /\ batch[Len(batch) - 1].outcome = "done"
            /\ ~InList(ivi_layout_getSurfacesOnLayer(l), a)
            /\ ~InList(ivi_layout_getSurfacesOnLayer(l), b)) =>
               Before(ivi_layout_getSurfacesOnLayer(l)', b, a)]_vars

(***************************************************************************)
(* C9, amended: when a batch ends with layerAddSurface(L, A) and then      *)
(* layerAddSurface(L, B), for distinct surfaces that were not in L, B is   *)
(* before A in L's pending list, and the commit, which puts each surface   *)
(* of the pending list in front of the ones before it, leaves A before B   *)
(* in L's committed surface order.                                         *)
(***************************************************************************)
C9_LastAddedLast ==
    [][\A l \in DOMAIN ivilayer, a \in DOMAIN ivisurf, b \in DOMAIN ivisurf :
           (/\ IsCommit
            /\ a # b
            /\ EndsWithBoth(batch, "layerAddSurface", l, a, b)
            /\ Last(batch).outcome = "done"
            /\ batch[Len(batch) - 1].outcome = "done"
            /\ ~InList(ivi_layout_getSurfacesOnLayer(l), a)
            /\ ~InList(ivi_layout_getSurfacesOnLayer(l), b)) =>
               /\ Before(ivilayer[l].pending_list_surface, b, a)
               /\ Before(ivi_layout_getSurfacesOnLayer(l)', a, b)
               /\ ~Before(ivi_layout_getSurfacesOnLayer(l)', b, a)]_vars

(* A commit has applied the adds of two surfaces to one layer. *)
C9_Witness ==
    \E l \in DOMAIN ivilayer, a \in DOMAIN ivisurf, b \in DOMAIN ivisurf :
        /\ a # b
        /\ EndsWithBoth(applied, "layerAddSurface", l, a, b)
        /\ Last(applied).outcome = "done"
        /\ applied[Len(applied) - 1].outcome = "done"
        /\ ivi_layout_getSurfacesOnLayer(l) = <<a, b>>
        /\ ivilayer[l].pending_list_surface = <<b, a>>

(***************************************************************************)
(* C10: layerRemoveSurface(L, S).  With S in L's pending list the call     *)
(* takes it out of that list, and the commit that follows leaves S out of  *)
(* L's committed order and L out of the layers S reports; with S not in    *)
(* L's pending list the call returns success and changes no pending list.  *)
(***************************************************************************)
C10_RemoveSurface ==
    [][\A l \in DOMAIN ivilayer, s \in DOMAIN ivisurf :
           /\ (Called("layerRemoveSurface", l, s) /\ is_surface_in_layer(s, l)) =>
                  ivilayer'[l].pending_list_surface =
                      wl_list_remove(ivilayer[l].pending_list_surface, s)
           /\ (Called("layerRemoveSurface", l, s) /\ ~is_surface_in_layer(s, l)) =>
                  /\ ret' = Status(0)
                  /\ \A x \in DOMAIN ivilayer :
                         ivilayer'[x].pending_list_surface =
                             ivilayer[x].pending_list_surface
           /\ (/\ IsCommit
               /\ EndsWith(batch, "layerRemoveSurface", l, s)
               /\ Last(batch).outcome = "done") =>
                  /\ ~InList(ivi_layout_getSurfacesOnLayer(l)', s)
                  /\ ~InList(ivi_layout_getLayersUnderSurface(s)', l)]_vars

(* The surface has bound native content: a weston surface and a view. *)
HasContent(s) == ivisurf[s].surface # NULL /\ ivisurf[s].view # NULL

(***************************************************************************)
(* The render list: layers on the screens, surfaces in the layers, the     *)
(* visibility of both, and surfaces that lose their content.               *)
(***************************************************************************)
NextRender ==
    \/ \E d \in FullLayerDimensions :
           /\ list_layer = <<>>
           /\ ivi_layout_layerCreateWithDimension(1, d[1], d[2])
    \/ \E id \in SurfaceIds, wl \in WestonSurfaces, d \in BufferDimensions :
           /\ id = Len(list_surface) + 1 \/ (id \in DOMAIN ivisurf /\ ~HasContent(id))
           /\ ivi_layout_surfaceCreate(wl, d[1], d[2], id)
    \/ \E l \in {1}, v \in Visibilities : ivi_layout_layerSetVisibility(l, v)
    \/ \E s \in SurfaceIds, v \in Visibilities : ivi_layout_surfaceSetVisibility(s, v)
    \/ \E l \in {1}, s \in SurfaceIds : ivi_layout_layerAddSurface(l, s)
    \/ \E sc \in ScreenIds, l \in {1} : ivi_layout_screenAddLayer(sc, l)
    \/ \E s \in SurfaceIds :
           s \in DOMAIN ivisurf /\ HasContent(s) /\ ivi_layout_surfaceUnsetNativeContent(s)
    \/ ivi_layout_commitChanges

SpecRender == InitWith(MaxRenderCalls, MaxRenderCommits) /\ [][NextRender]_vars

(* The last call was a commit: its trace ends with the repaint request. *)
Committed == trace # <<>> /\ Last(trace).kind = "repaint"

RECURSIVE Reverse(_)
Reverse(seq) == IF seq = <<>> THEN <<>> ELSE Append(Reverse(Tail(seq)), Head(seq))

(* The surface is to be composited: it is visible with content, in the     *)
(* committed order of a visible layer of the first screen's committed order. *)
Composited(s) ==
    /\ ivisurf[s].prop.visibility # 0
    /\ HasContent(s)
    /\ \E l \in Range(iviscrn[Head(list_screen)].order_list_layer) :
           /\ ivilayer[l].prop.visibility # 0
           /\ InList(ivilayer[l].order_list_surface, s)

(* The composited surfaces in the order of the walk: the layers front to   *)
(* back of the committed layer order, the surfaces of each front to back.  *)
RECURSIVE RenderWalk(_)
RenderWalk(layers) ==
    IF layers = <<>> THEN <<>>
    ELSE SelectSeq(ivilayer[Head(layers)].order_list_surface, Composited)
         \o RenderWalk(Tail(layers))

IsLayerCall == Len(batch') = Len(batch) + 1 /\ Last(batch').op \in LayerCalls

(***************************************************************************)
(* C12: a setter or membership call on a layer leaves the event mask, the  *)
(* pending properties and the current properties of every surface as they  *)
(* were, the surfaces of that layer included; and the mask a commit passes *)
(* to the observers of a surface holds only bits of calls made on that     *)
(* surface.                                                                *)
(***************************************************************************)
C12_LayerCallsLeaveSurfaces ==
    [][/\ IsLayerCall =>
              \A s \in DOMAIN ivisurf :
                  /\ ivisurf'[s].event_mask = ivisurf[s].event_mask
                  /\ ivisurf'[s].pending_prop = ivisurf[s].pending_prop
                  /\ ivisurf'[s].prop = ivisurf[s].prop
       /\ IsCommit =>
              \A i \in DOMAIN trace' :
                  trace'[i].kind = "surface_prop" =>
                      trace'[i].mask \subseteq
                          CategoryBits(CallsOnSurface(trace'[i].ent))]_vars

(* A layer setter has been called on a layer holding a surface whose own   *)
(* setter was called before it in the same batch.                          *)
C12_Witness ==
    /\ batch # <<>>
    /\ Last(batch).op \in LayerCalls \ {"layerAddSurface"}
    /\ \E s \in DOMAIN ivisurf :
           /\ InList(ivilayer[Last(batch).ent].pending_list_surface, s)
           /\ ivisurf[s].event_mask # {}
           /\ ivisurf[s].pending_prop # ivisurf[s].prop

(* The source and destination rectangles of properties. *)
SourceRectangle(prop) ==
    <<prop.sourceX, prop.sourceY, prop.sourceWidth, prop.sourceHeight>>

DestinationRectangle(prop) == <<prop.destX, prop.destY, prop.destWidth, prop.destHeight>>

(* No setter has given the surface a source or a destination rectangle:    *)
(* the setters pass non-zero values only, so the pending ones are zero.    *)
NoRectangleSet(s) ==
    /\ SourceRectangle(ivisurf[s].pending_prop) = <<0, 0, 0, 0>>
    /\ DestinationRectangle(ivisurf[s].pending_prop) = <<0, 0, 0, 0>>

(***************************************************************************)
(* C13: zero-size source defaulting.  For a surface with buffer dimensions *)
(* (w, h), both positive, whose source and destination rectangles were     *)
(* never set, every commit leaves the current source rectangle and the     *)
(* current destination rectangle at (0, 0, w, h).                          *)
(***************************************************************************)
C13_ZeroSizeDefaulting ==
    [][IsCommit =>
          \A s \in DOMAIN ivisurf :
              (/\ ivisurf[s].buffer_width > 0
               /\ ivisurf[s].buffer_height > 0
               /\ NoRectangleSet(s)) =>
                  /\ SourceRectangle(ivisurf'[s].prop) =
                         <<0, 0, ivisurf[s].buffer_width, ivisurf[s].buffer_height>>
                  /\ DestinationRectangle(ivisurf'[s].prop) =
                         <<0, 0, ivisurf[s].buffer_width, ivisurf[s].buffer_height>>]_vars

(***************************************************************************)
(* C14: surface destination round-trip.  When the last call before a       *)
(* commit is surfaceSetDestinationRectangle(S, x, y, w, h), zero w and h   *)
(* included, then after the commit surfaceGetPosition(S) is (x, y) and     *)
(* surfaceGetDimension(S) is (w, h).                                       *)
(***************************************************************************)
C14_SurfaceDestinationRoundTrip ==
    [][\A s \in DOMAIN ivisurf :
           (/\ IsCommit
            /\ EndsWith(batch, "surfaceSetDestinationRectangle", s, Last(batch).arg)) =>
               /\ ivi_layout_surfaceGetPosition(s)' =
                      <<Last(batch).arg[1], Last(batch).arg[2]>>
               /\ ivi_layout_surfaceGetDimension(s)' =
                      <<Last(batch).arg[3], Last(batch).arg[4]>>]_vars

(***************************************************************************)
(* C15: layer dimension round-trip.  When the last call before a commit is *)
(* layerSetDimension(L, (w, h)) or layerSetDestinationRectangle(L, x, y,   *)
(* w, h), then after the commit layerGetDimension(L) is (w, h).            *)
(***************************************************************************)
C15_LayerDimensionRoundTrip ==
    [][\A l \in DOMAIN ivilayer :
           /\ (/\ IsCommit
               /\ EndsWith(batch, "layerSetDimension", l, Last(batch).arg)) =>
                  ivi_layout_layerGetDimension(l)' = Last(batch).arg
           /\ (/\ IsCommit
               /\ EndsWith(batch, "layerSetDestinationRectangle", l, Last(batch).arg)) =>
                  ivi_layout_layerGetDimension(l)' =
                      <<Last(batch).arg[3], Last(batch).arg[4]>>]_vars

(***************************************************************************)
(* C16: membership is symmetric.  For every live surface S and live layer  *)
(* L, S is in the committed surface order of L exactly when L is among the *)
(* layers ivi_layout_getLayersUnderSurface returns for S; and a layer is   *)
(* in the committed layer order of a screen exactly when the screen is     *)
(* among those ivi_layout_getScreensUnderLayer returns for the layer.      *)
(***************************************************************************)
C16_MembershipSymmetry ==
    /\ \A s \in DOMAIN ivisurf, l \in DOMAIN ivilayer :
           InList(ivi_layout_getSurfacesOnLayer(l), s) <=>
               InList(ivi_layout_getLayersUnderSurface(s), l)
    /\ \A l \in DOMAIN ivilayer, sc \in DOMAIN iviscrn :
           InList(iviscrn[sc].order_list_layer, l) <=>
               InList(ivi_layout_getScreensUnderLayer(l), sc)

(* The surfaces whose back-link records lead to the layer. *)
SurfacesReporting(l) ==
    {s \in DOMAIN ivisurf : InList(ivi_layout_getLayersUnderSurface(s), l)}

(***************************************************************************)
(* C17: a commit does not perturb the layers whose membership did not      *)
(* change.  A layer whose event mask has neither the add nor the remove    *)
(* bit when the commit starts has, after the commit, the committed surface *)
(* order and the back-links it had before, whatever the commit did to      *)
(* other layers.                                                           *)
(***************************************************************************)
C17_UnchangedLayersKept ==
    [][IsCommit =>
          \A l \in DOMAIN ivilayer :
              ivilayer[l].event_mask \cap
                  (IVI_NOTIFICATION_ADD \cup IVI_NOTIFICATION_REMOVE) = {} =>
                  /\ ivi_layout_getSurfacesOnLayer(l)' = ivi_layout_getSurfacesOnLayer(l)
                  /\ SurfacesReporting(l)' = SurfacesReporting(l)]_vars

(***************************************************************************)
(* Destruction: layers and surfaces created, put on a screen and in a      *)
(* layer, observed, committed and destroyed, in any order.                 *)
(***************************************************************************)
NextDestroy ==
    \/ \E id \in LayerIds, d \in FullLayerDimensions :
           /\ id <= Len(list_layer) + 1
           /\ id \notin DOMAIN ivilayer
           /\ ivi_layout_layerCreateWithDimension(id, d[1], d[2])
    \/ \E id \in {1}, wl \in WestonSurfaces, d \in BufferDimensions :
           /\ id \notin DOMAIN ivisurf
           /\ ivi_layout_surfaceCreate(wl, d[1], d[2], id)
    \/ \E s \in {1}, cb \in Callbacks : ivi_layout_surfaceAddNotification(s, cb)
    \/ \E l \in LayerIds, s \in {1} : ivi_layout_layerAddSurface(l, s)
    \/ \E sc \in {0}, l \in LayerIds : ivi_layout_screenAddLayer(sc, l)
    \/ \E l \in LayerIds : ivi_layout_layerRemove(l)
    \/ \E s \in {1} : ivi_layout_surfaceRemove(s)
    \/ \E s \in {1} : westonsurface_destroy_from_ivisurface(s)
    \/ ivi_layout_commitChanges

SpecDestroy == InitWith(MaxDestroyCalls, MaxDestroyCommits) /\ [][NextDestroy]_vars

(* The entries of a back-link list that lead to x, freed or not. *)
LeadsTo(list, field, x) == \E i \in DOMAIN list : list[i][field] = x

(***************************************************************************)
(* C18: layer destruction cleans up.  When ivi_layout_layerRemove(L)       *)
(* returns, L is in no layer registry, in no pending or committed layer    *)
(* list of a screen and in no back-link list of a screen, and no live      *)
(* surface reports L among its layers or keeps a back-link record that     *)
(* led to L.                                                               *)
(***************************************************************************)
C18_LayerRemoveCleanup ==
    [][\A l \in LayerIds :
          (l \in DOMAIN ivilayer /\ l \notin DOMAIN ivilayer') =>
              /\ ~InList(list_layer', l)
              /\ \A sc \in DOMAIN iviscrn' :
                     /\ ~InList(iviscrn'[sc].pending_list_layer, l)
                     /\ ~InList(iviscrn'[sc].order_list_layer, l)
                     /\ ~LeadsTo(iviscrn'[sc].link_to_layer, "ivilayer", l)
              /\ \A s \in DOMAIN ivisurf' :
                     /\ ~InList(ivi_layout_getLayersUnderSurface(s)', l)
                     /\ ~LeadsTo(ivisurf'[s].list_layer, "ivilayer", l)]_vars

(***************************************************************************)
(* C19: surface destruction cleans up.  When a surface has been removed,   *)
(* by ivi_layout_surfaceRemove or by the destruction of its native         *)
(* content, it is in no surface registry, in no pending or committed       *)
(* surface list of a layer and in no back-link list of a layer, and every  *)
(* property-notification record registered on it has been released.        *)
(***************************************************************************)
C19_SurfaceRemoveCleanup ==
    [][\A s \in SurfaceIds :
          (s \in DOMAIN ivisurf /\ s \notin DOMAIN ivisurf') =>
              /\ ~InList(list_surface', s)
              /\ \A l \in DOMAIN ivilayer' :
                     /\ ~InList(ivilayer'[l].pending_list_surface, s)
                     /\ ~InList(ivilayer'[l].order_list_surface, s)
                     /\ ~LeadsTo(ivilayer'[l].link_to_surface, "ivisurf", s)
              /\ leaked' = leaked]_vars

(***************************************************************************)
(* The commit cycle: one observed surface made visible and translucent in  *)
(* one visible layer on the first screen.                                  *)
(***************************************************************************)
NextPhases ==
    \/ Registration({1}, {1})
    \/ \E id \in {1}, d \in FullLayerDimensions :
           /\ id \notin DOMAIN ivilayer
           /\ ivi_layout_layerCreateWithDimension(id, d[1], d[2])
    \/ \E id \in {1}, wl \in WestonSurfaces, d \in BufferDimensions :
           /\ id \notin DOMAIN ivisurf
           /\ ivi_layout_surfaceCreate(wl, d[1], d[2], id)
    \/ \E l \in {1}, v \in Visibilities \ {0} : ivi_layout_layerSetVisibility(l, v)
    \/ \E s \in {1}, v \in Visibilities : ivi_layout_surfaceSetVisibility(s, v)
    \/ \E s \in {1}, o \in Opacities \ {0} : ivi_layout_surfaceSetOpacity(s, o)
    \/ \E l \in {1}, s \in {1} : ivi_layout_layerAddSurface(l, s)
    \/ \E sc \in {Head(list_screen)}, l \in {1} : ivi_layout_screenAddLayer(sc, l)
    \/ ivi_layout_commitChanges

SpecPhases == InitWith(MaxPhaseCalls, MaxPhaseCommits) /\ [][NextPhases]_vars

(* The surfaces in the committed order of a layer in the committed order *)
(* of a screen, with the layer.                                           *)
OnScreen ==
    {<<l, s>> \in (DOMAIN ivilayer) \X (DOMAIN ivisurf) :
        /\ InList(ivilayer[l].order_list_surface, s)
        /\ \E sc \in DOMAIN iviscrn : InList(iviscrn[sc].order_list_layer, l)}

(***************************************************************************)
(* C20: the sub-phases of a commit run in order.  The render list is built *)
(* from the promoted properties; the transforms are computed from the      *)
(* promoted properties on the rebuilt lists; each property observer is     *)
(* handed the properties as the commit leaves them; and the repaint is     *)
(* requested once, after the last observer.                                *)
(***************************************************************************)
C20_CommitPhases ==
    [][IsCommit =>
          /\ \A s \in Range(view_list') :
                 /\ ivisurf[s].pending_prop.visibility # 0
                 /\ \E p \in OnScreen' :
                        p[2] = s /\ ivilayer[p[1]].pending_prop.visibility # 0
          /\ \A p \in OnScreen' :
                 (/\ ivisurf[p[2]].view # NULL
                  /\ IVI_NOTIFICATION_OPACITY \cap
                         (ivilayer[p[1]].event_mask \cup ivisurf[p[2]].event_mask) # {}) =>
                     ivisurf'[p[2]].view_alpha =
                         ivilayer[p[1]].pending_prop.opacity *
                             ivisurf[p[2]].pending_prop.opacity
          /\ \A i \in DOMAIN trace' :
                 /\ trace'[i].kind = "layer_prop" =>
                        trace'[i].prop = ivilayer'[trace'[i].ent].prop
                 /\ trace'[i].kind = "surface_prop" =>
                        trace'[i].prop = ivisurf'[trace'[i].ent].prop
                 /\ trace'[i].kind = "repaint" <=> i = Len(trace')
          /\ trace' # <<>>]_vars

C20_Witness ==
    /\ Committed
    /\ Len(trace) > 1
    /\ view_list # <<>>
    /\ \E p \in OnScreen : ivisurf[p[2]].view_alpha # wl_fixed_one * wl_fixed_one

(***************************************************************************)
(* The observers: callbacks registered on a layer, on a surface and in the *)
(* global registries, while the layer and the surface are created, set,    *)
(* committed and destroyed.                                                *)
(***************************************************************************)
NextObservers ==
    \/ \E cb \in ObserverCallbacks :
           \/ ivi_layout_addNotificationCreateLayer(cb, NULL)
           \/ ivi_layout_addNotificationRemoveLayer(cb, NULL)
           \/ ivi_layout_addNotificationCreateSurface(cb, NULL)
           \/ ivi_layout_addNotificationRemoveSurface(cb, NULL)
           \/ \E l \in {1} : ivi_layout_layerAddNotification(l, cb)
           \/ \E s \in {1} : ivi_layout_surfaceAddNotification(s, cb)
    \/ \E id \in {1}, d \in FullLayerDimensions :
           /\ id \notin DOMAIN ivilayer
           /\ ivi_layout_layerCreateWithDimension(id, d[1], d[2])
    \/ \E id \in {1}, wl \in WestonSurfaces, d \in BufferDimensions :
           /\ id \notin DOMAIN ivisurf
           /\ ivi_layout_surfaceCreate(wl, d[1], d[2], id)
    \/ \E l \in {1}, o \in Opacities \ {0} : ivi_layout_layerSetOpacity(l, o)
    \/ \E s \in {1}, o \in Opacities \ {0} : ivi_layout_surfaceSetOpacity(s, o)
    \/ \E l \in {1} : ivi_layout_layerRemove(l)
    \/ \E s \in {1} : ivi_layout_surfaceRemove(s)
    \/ ivi_layout_commitChanges

SpecObservers ==
    /\ InitObserved(MaxObserverCalls, MaxObserverCommits, MaxObservers)
    /\ [][NextObservers]_vars

(***************************************************************************)
(* C21: within one commit, every property observer of every layer is       *)
(* invoked before any property observer of any surface.                    *)
(***************************************************************************)
C21_LayersBeforeSurfaces ==
    [][IsCommit =>
          \A i, j \in DOMAIN trace' :
              (trace'[i].kind = "layer_prop" /\ trace'[j].kind = "surface_prop") =>
                  i < j]_vars

C21_Witness ==
    /\ Committed
    /\ \E i, j \in DOMAIN trace :
           trace[i].kind = "layer_prop" /\ trace[j].kind = "surface_prop"

(* The callbacks a trace invokes, in order, and those of one kind. *)
CallbacksOf(tr) == [i \in DOMAIN tr |-> tr[i].cb]

Invoked(tr, kind) == CallbacksOf(SelectSeq(tr, LAMBDA e : e.kind = kind))

(* A registration puts the new observer in front of the older ones. *)
NewestFirst(old, new) == new # old => (new # <<>> /\ Tail(new) = old)

(***************************************************************************)
(* C22: observers of the same entity, or of the same global registry, are  *)
(* invoked in reverse registration order.  Each registration puts the new  *)
(* observer in front of those registered before it, and every dispatch     *)
(* invokes the observers of a list from the front to the back: an observer *)
(* registered after another is invoked before it.                          *)
(***************************************************************************)
C22_NewestObserverFirst ==
    [][/\ NewestFirst(layer_notification.list_create, layer_notification'.list_create)
       /\ NewestFirst(layer_notification.list_remove, layer_notification'.list_remove)
       /\ NewestFirst(surface_notification.list_create, surface_notification'.list_create)
       /\ NewestFirst(surface_notification.list_remove, surface_notification'.list_remove)
       /\ \A l \in (DOMAIN ivilayer) \cap (DOMAIN ivilayer') :
              NewestFirst(ivilayer[l].list_notification, ivilayer'[l].list_notification)
       /\ \A s \in (DOMAIN ivisurf) \cap (DOMAIN ivisurf') :
              NewestFirst(ivisurf[s].list_notification, ivisurf'[s].list_notification)
       /\ IsCommit =>
              /\ \A l \in DOMAIN ivilayer :
                     CallbacksOf(LayerEvents(trace', l)) = ivilayer[l].list_notification
              /\ \A s \in DOMAIN ivisurf :
                     CallbacksOf(SurfaceEvents(trace', s)) = ivisurf[s].list_notification
       /\ DOMAIN ivilayer' \ DOMAIN ivilayer # {} =>
              Invoked(trace', "layer_create") = layer_notification.list_create
       /\ DOMAIN ivilayer \ DOMAIN ivilayer' # {} =>
              Invoked(trace', "layer_remove") = layer_notification.list_remove
       /\ DOMAIN ivisurf' \ DOMAIN ivisurf # {} =>
              Invoked(trace', "surface_create") = surface_notification.list_create
       /\ DOMAIN ivisurf \ DOMAIN ivisurf' # {} =>
              Invoked(trace', "surface_remove") = surface_notification.list_remove]_vars

C22_Witness ==
    /\ Committed
    /\ \E s \in DOMAIN ivisurf :
           /\ ivisurf[s].list_notification = <<"cb2", "cb1">>
           /\ CallbacksOf(SurfaceEvents(trace, s)) = <<"cb2", "cb1">>

(* The kinds of event a trace holds. *)
KindsOf(tr) == {tr[i].kind : i \in DOMAIN tr}

(***************************************************************************)
(* C23: notification timing.  The layer-create, layer-remove,              *)
(* surface-create and surface-remove observers are all invoked inside the  *)
(* call that creates or destroys the object, and never by a commit; the    *)
(* property observers are invoked by a commit only, never by a setter, a   *)
(* creation, a destruction or a registration.                              *)
(***************************************************************************)
C23_NotificationTiming ==
    [][/\ IsCommit => KindsOf(trace') \subseteq {"layer_prop", "surface_prop", "repaint"}
       /\ ~IsCommit => KindsOf(trace') \cap {"layer_prop", "surface_prop"} = {}
       /\ DOMAIN ivilayer' \ DOMAIN ivilayer # {} =>
              /\ Len(trace') = Len(layer_notification.list_create)
              /\ KindsOf(trace') \subseteq {"layer_create"}
       /\ DOMAIN ivilayer \ DOMAIN ivilayer' # {} =>
              /\ Len(trace') = Len(layer_notification.list_remove)
              /\ KindsOf(trace') \subseteq {"layer_remove"}
       /\ DOMAIN ivisurf' \ DOMAIN ivisurf # {} =>
              /\ Len(trace') = Len(surface_notification.list_create)
              /\ KindsOf(trace') \subseteq {"surface_create"}
       /\ DOMAIN ivisurf \ DOMAIN ivisurf' # {} =>
              /\ Len(trace') = Len(surface_notification.list_remove)
              /\ KindsOf(trace') \subseteq {"surface_remove"}]_vars

C23_Witness ==
    /\ trace # <<>>
    /\ KindsOf(trace) = {"surface_remove"}
    /\ Len(trace) = Len(surface_notification.list_remove)
    /\ ivisurf = <<>>

(***************************************************************************)
(* C24: commit is idempotent.  A commit that directly follows a commit,    *)
(* with no call in between, changes nothing: the current properties of     *)
(* every layer and surface, the committed order lists, the back-links and  *)
(* the render list are after it what they were before it.                  *)
(***************************************************************************)
C24_CommitIdempotent ==
    [][(Committed /\ IsCommit) =>
          /\ \A l \in DOMAIN ivilayer :
                 /\ ivilayer'[l].prop = ivilayer[l].prop
                 /\ ivilayer'[l].order_list_surface = ivilayer[l].order_list_surface
                 /\ ivilayer'[l].list_screen = ivilayer[l].list_screen
          /\ \A s \in DOMAIN ivisurf :
                 /\ ivisurf'[s].prop = ivisurf[s].prop
                 /\ ivisurf'[s].list_layer = ivisurf[s].list_layer
          /\ \A sc \in DOMAIN iviscrn :
                 iviscrn'[sc].order_list_layer = iviscrn[sc].order_list_layer
          /\ view_list' = view_list]_vars

(***************************************************************************)
(* Argument checking: every call that takes a pointer, with null and with  *)
(* valid pointers, on one layer and one surface; numeric arguments include *)
(* values outside the meaningful range.                                    *)
(***************************************************************************)
NextInvalid ==
    \/ \E cb \in Callbacks \cup {NoCallback} :
           \/ ivi_layout_addNotificationCreateLayer(cb, NULL)
           \/ ivi_layout_addNotificationRemoveLayer(cb, NULL)
           \/ ivi_layout_addNotificationCreateSurface(cb, NULL)
           \/ ivi_layout_addNotificationRemoveSurface(cb, NULL)
           \/ \E l \in {NULL, 1} : ivi_layout_layerAddNotification(l, cb)
           \/ \E s \in {NULL, 1} : ivi_layout_surfaceAddNotification(s, cb)
    \/ \E id \in {1}, d \in FullLayerDimensions :
           /\ id \notin DOMAIN ivilayer
           /\ ivi_layout_layerCreateWithDimension(id, d[1], d[2])
    \/ \E id \in {1}, wl \in WestonSurfaces, d \in BufferDimensions :
           /\ id \notin DOMAIN ivisurf
           /\ ivi_layout_surfaceCreate(wl, d[1], d[2], id)
    \/ LayerSetters({NULL, 1})
    \/ SurfaceSetters({NULL, 1})
    \/ \E l \in {NULL, 1}, o \in {-128, 2 * wl_fixed_one} : ivi_layout_layerSetOpacity(l, o)
    \/ \E s \in {NULL, 1}, v \in {-1, 7} : ivi_layout_surfaceSetVisibility(s, v)
    \/ \E l \in {NULL, 1}, pColor \in {NULL, 1} : ivi_layout_layerSetChromaKey(l, pColor)
    \/ \E s \in {NULL, 1}, pColor \in {NULL, 1} : ivi_layout_surfaceSetChromaKey(s, pColor)
    \/ \E l \in {NULL, 1}, s \in {NULL, 1} : ivi_layout_layerAddSurface(l, s)
    \/ \E l \in {NULL, 1}, s \in {NULL, 1} : ivi_layout_layerRemoveSurface(l, s)
    \/ \E l \in {NULL, 1}, a \in Arrays({1}) : ivi_layout_layerSetRenderOrder(l, a)
    \/ \E sc \in {NoScreen, Head(list_screen)}, l \in {NULL, 1} :
           ivi_layout_screenAddLayer(sc, l)
    \/ \E sc \in {NoScreen, Head(list_screen)}, a \in Arrays({1}) :
           ivi_layout_screenSetRenderOrder(sc, a)
    \/ ivi_layout_commitChanges

SpecInvalid ==
    /\ InitObserved(MaxInvalidCalls, MaxInvalidCommits, MaxInvalidObservers)
    /\ [][NextInvalid]_vars

(* The calls that stage a property, and those that are not implemented. *)
PropertySetters ==
    {"layerSetVisibility", "layerSetOpacity", "layerSetSourceRectangle",
     "layerSetDestinationRectangle", "layerSetDimension", "layerSetPosition",
     "layerSetOrientation", "surfaceSetVisibility", "surfaceSetOpacity",
     "surfaceSetSourceRectangle", "surfaceSetDestinationRectangle",
     "surfaceSetDimension", "surfaceSetPosition", "surfaceSetOrientation"}

ChromaKeySetters == {"layerSetChromaKey", "surfaceSetChromaKey"}

(* The call has a null pointer where it takes an entity or a callback. *)
NullArgument(c, setters) ==
    \/ /\ c.op \in setters \cup {"layerSetRenderOrder", "layerAddSurface",
                                 "layerRemoveSurface", "layerAddNotification",
                                 "surfaceAddNotification"}
       /\ c.ent = NULL
    \/ /\ c.op \in {"screenAddLayer", "screenSetRenderOrder"}
       /\ c.ent = NoScreen
    \/ /\ c.op \in {"layerAddSurface", "layerRemoveSurface", "screenAddLayer"}
       /\ c.arg = NULL
    \/ /\ c.op \in {"addNotificationCreateLayer", "addNotificationRemoveLayer",
                    "addNotificationCreateSurface", "addNotificationRemoveSurface",
                    "layerAddNotification", "surfaceAddNotification"}
       /\ c.arg = NoCallback

(* The step is a call recorded in the batch. *)
IsCall == Len(batch') = Len(batch) + 1

(* The call changes nothing of the engine. *)
EngineUnchanged ==
    UNCHANGED <<list_screen, list_layer, list_surface, iviscrn, ivilayer, ivisurf,
                layer_notification, surface_notification, view_list>>

NextShell ==
    \/ \E cb \in Callbacks : ivi_layout_addNotificationCreateSurface(cb, NULL)
    \/ \E ws \in {NULL, 1, 2}, d \in BufferDimensions, id \in SurfaceIds :
           application_surface_create(ws, d[1], d[2], id)
    \/ \E s \in SurfaceIds : surface_destroy(s)
    \/ \E s \in SurfaceIds : westonsurface_destroy_from_ivisurface(s)
    \/ \E id \in {1}, d \in FullLayerDimensions :
           /\ id \notin DOMAIN ivilayer
           /\ ivi_layout_layerCreateWithDimension(id, d[1], d[2])
    \/ \E s \in SurfaceIds, o \in Opacities : ivi_layout_surfaceSetOpacity(s, o)
    \/ \E l \in {1}, s \in SurfaceIds : ivi_layout_layerAddSurface(l, s)
    \/ ivi_layout_commitChanges

SpecShell == InitWith(MaxShellCalls, MaxShellCommits) /\ [][NextShell]_vars

(* The request leaves the surfaces, their registry and the layers as they are *)
(* and invokes no observer.                                                   *)
RequestIgnored ==
    /\ ivisurf' = ivisurf
    /\ list_surface' = list_surface
    /\ ivilayer' = ivilayer
    /\ view_list' = view_list
    /\ trace' = <<>>

(***************************************************************************)
(* C26: a surface-create request for an id whose layout surface has bound  *)
(* content returns no surface, the client is sent the id-in-use warning,   *)
(* the surface's content, properties and memberships and the registry are  *)
(* unchanged, and no surface-create observer is invoked.                   *)
(***************************************************************************)
C26_DuplicateSurfaceId ==
    [][\A ws \in {NULL, 1, 2}, d \in BufferDimensions, id \in SurfaceIds :
           (/\ id \in DOMAIN ivisurf
            /\ ivisurf[id].surface # NULL
            /\ application_surface_create(ws, d[1], d[2], id)) =>
               /\ ret'.kind = "warning"
               /\ ret'.val = warning_strings[1]
               /\ RequestIgnored]_vars

(***************************************************************************)
(* C26, amended: that holds when the request brings a weston surface       *)
(* without a role.  A request without a weston surface is answered with    *)
(* the invalid-surface warning, and one whose weston surface is already    *)
(* bound with a protocol error; both leave everything unchanged too.       *)
(***************************************************************************)
C26_DuplicateSurfaceIdRefused ==
    [][\A ws \in {NULL, 1, 2}, d \in BufferDimensions, id \in SurfaceIds :
           (/\ id \in DOMAIN ivisurf
            /\ ivisurf[id].surface # NULL
            /\ application_surface_create(ws, d[1], d[2], id)) =>
               /\ RequestIgnored
               /\ ret'.kind \in {"warning", "error"}
               /\ ret'.kind = "error" <=> (ws # NULL /\ configure(ws))
               /\ ret'.kind = "warning" =>
                      ret'.val = warning_strings[IF ws = NULL THEN 0 ELSE 1]]_vars

(* The id-in-use warning was sent for a surface that has content, a staged *)
(* opacity and a place in a layer, with a surface-create observer.         *)
C26_Witness ==
    /\ ret.kind = "warning"
    /\ ret.val = warning_strings[1]
    /\ trace = <<>>
    /\ surface_notification.list_create # <<>>
    /\ \E s \in DOMAIN ivisurf :
           /\ ivisurf[s].surface # NULL
           /\ ivisurf[s].pending_prop # ivisurf[s].prop
           /\ \E l \in DOMAIN ivilayer : InList(ivilayer[l].pending_list_surface, s)

(***************************************************************************)
(* C27: the scale transform is never computed with a zero divisor: when    *)
(* the layer's source width or height, or the surface's source width or    *)
(* height after defaulting, is zero, the scale of that surface is left as  *)
(* it was, so no scale matrix ever holds a quotient by zero.               *)
(***************************************************************************)
C27_NoZeroDivisor ==
    \A s \in DOMAIN ivisurf :
        /\ ivisurf[s].scaling.sx[2] # 0
        /\ ivisurf[s].scaling.sy[2] # 0

(***************************************************************************)
(* Opacity: one layer and one surface made visible and translucent, the    *)
(* surface put into the layer and the layer onto the first screen, in any  *)
(* order around two commits.                                               *)
(***************************************************************************)
NextOpacity ==
    \/ \E id \in {1}, d \in FullLayerDimensions :
           /\ id \notin DOMAIN ivilayer
           /\ ivi_layout_layerCreateWithDimension(id, d[1], d[2])
    \/ \E id \in {1}, wl \in WestonSurfaces, d \in BufferDimensions :
           /\ id \notin DOMAIN ivisurf
           /\ ivi_layout_surfaceCreate(wl, d[1], d[2], id)
    \/ \E l \in {1}, v \in Visibilities \ {0} : ivi_layout_layerSetVisibility(l, v)
    \/ \E s \in {1}, v \in Visibilities \ {0} : ivi_layout_surfaceSetVisibility(s, v)
    \/ \E l \in {1}, o \in Opacities \ {0} : ivi_layout_layerSetOpacity(l, o)
    \/ \E s \in {1}, o \in Opacities \ {0} : ivi_layout_surfaceSetOpacity(s, o)
    \/ \E l \in {1}, s \in {1} : ivi_layout_layerAddSurface(l, s)
    \/ \E sc \in {Head(list_screen)}, l \in {1} : ivi_layout_screenAddLayer(sc, l)
    \/ ivi_layout_commitChanges

SpecOpacity == InitWith(MaxOpacityCalls, MaxOpacityCommits) /\ [][NextOpacity]_vars

(***************************************************************************)
(* C28: after every commit, the view alpha of every surface in the render  *)
(* list is the committed opacity of its layer times the committed opacity  *)
(* of the surface, whatever calls and commits came before.                 *)
(***************************************************************************)
C28_MultiplicativeOpacity ==
    Committed =>
        \A p \in OnScreen :
            InList(view_list, p[2]) =>
                ivisurf[p[2]].view_alpha =
                    ivilayer[p[1]].prop.opacity * ivisurf[p[2]].prop.opacity

(***************************************************************************)
(* Screen membership: the layers put onto both screens, one at a time and  *)
(* as arrays, the null array among them, around two commits.               *)
(***************************************************************************)
NextScreens ==
    \/ \E id \in LayerIds, d \in FullLayerDimensions :
           /\ id \notin DOMAIN ivilayer
           /\ id <= Len(list_layer) + 1
           /\ ivi_layout_layerCreateWithDimension(id, d[1], d[2])
    \/ ScreenMembership(ScreenIds, LayerIds)
    \/ ivi_layout_commitChanges

SpecScreens == InitWith(MaxScreenCalls, MaxScreenCommits) /\ [][NextScreens]_vars

(***************************************************************************)
(* C29: after a commit, the committed layer order of every screen holds    *)
(* exactly the layers of the screen's pending layer list; after            *)
(* screenSetRenderOrder with a null or an empty array and a commit it is   *)
(* empty.                                                                  *)
(***************************************************************************)
C29_ScreenPromotion ==
    Committed =>
        \A sc \in DOMAIN iviscrn :
            Range(iviscrn[sc].order_list_layer) = Range(iviscrn[sc].pending_list_layer)

(***************************************************************************)
(* Lookup by id.  The layer and surface lookups walk the registry for the  *)
(* id; the screen lookup returns the first screen of the list.             *)
(***************************************************************************)
ivi_layout_getLayerFromId(id_layer) ==
    IF \E i \in DOMAIN list_layer : list_layer[i] = id_layer
    THEN list_layer[CHOOSE i \in DOMAIN list_layer :
                        /\ list_layer[i] = id_layer
                        /\ \A j \in 1..(i - 1) : list_layer[j] # id_layer]
    ELSE NULL

ivi_layout_getSurfaceFromId(id_surface) ==
    IF \E i \in DOMAIN list_surface : list_surface[i] = id_surface
    THEN list_surface[CHOOSE i \in DOMAIN list_surface :
                          /\ list_surface[i] = id_surface
                          /\ \A j \in 1..(i - 1) : list_surface[j] # id_surface]
    ELSE NULL

ivi_layout_getScreenFromId(id_screen) ==
    IF list_screen = <<>> THEN NoScreen ELSE Head(list_screen)

(***************************************************************************)
(* C30: a lookup by id returns the entity with that id, or nothing when no *)
(* live entity of the kind has it, for screens, layers and surfaces; and   *)
(* no two live layers and no two live surfaces have the same id.           *)
(***************************************************************************)
C30_IdLookup ==
    /\ \A id \in LayerIds :
           ivi_layout_getLayerFromId(id) = IF id \in DOMAIN ivilayer THEN id ELSE NULL
    /\ \A id \in SurfaceIds :
           ivi_layout_getSurfaceFromId(id) = IF id \in DOMAIN ivisurf THEN id ELSE NULL
    /\ \A id \in 0..MaxScreens :
           ivi_layout_getScreenFromId(id) = IF id \in DOMAIN iviscrn THEN id ELSE NoScreen
    /\ NoDuplicates(list_layer)
    /\ NoDuplicates(list_surface)

(***************************************************************************)
(* ivi_layout_getLayersOnScreen walks order.list_layer, whose nodes are    *)
(* the order.link members of the layers, with the member name link: each   *)
(* pointer it stores is the address of a layer's order.link taken for the  *)
(* address of the layer, which is displaced from the layer by the offset   *)
(* of order.link.                                                          *)
(***************************************************************************)
wl_container_of(l, node, member) ==
    [ivilayer |-> l, displaced |-> node # member]

ivi_layout_getLayersOnScreen(sc) ==
    [i \in DOMAIN iviscrn[sc].order_list_layer |->
        wl_container_of(iviscrn[sc].order_list_layer[i], "order.link", "link")]

(***************************************************************************)
(* C31: getSurfacesOnLayer returns the committed surface order of the      *)
(* layer and getLayersOnScreen the layers of the committed layer order of  *)
(* the screen, in list order, and no membership call changes either        *)
(* result before the next commit.                                          *)
(***************************************************************************)
C31_QueriesReturnCommitted ==
    [][/\ \A l \in DOMAIN ivilayer' :
              ivi_layout_getSurfacesOnLayer(l)' = ivilayer'[l].order_list_surface
       /\ \A sc \in DOMAIN iviscrn' :
              ivi_layout_getLayersOnScreen(sc)' =
                  [i \in DOMAIN iviscrn'[sc].order_list_layer |->
                      [ivilayer |-> iviscrn'[sc].order_list_layer[i], displaced |-> FALSE]]
       /\ IsCall =>
              /\ \A l \in DOMAIN ivilayer :
                     ivi_layout_getSurfacesOnLayer(l)' = ivi_layout_getSurfacesOnLayer(l)
              /\ \A sc \in DOMAIN iviscrn :
                     ivi_layout_getLayersOnScreen(sc)' = ivi_layout_getLayersOnScreen(sc)]_vars

(***************************************************************************)
(* Unregistration: two callbacks registered with two userdata in the four  *)
(* global registries and removed again, around the creation and removal of *)
(* a layer.                                                                *)
(***************************************************************************)
NextUnregister ==
    \/ \E cb \in ObserverCallbacks, userdata \in {1, 2} :
           \/ ivi_layout_addNotificationCreateLayer(cb, userdata)
           \/ ivi_layout_addNotificationRemoveLayer(cb, userdata)
           \/ ivi_layout_addNotificationCreateSurface(cb, userdata)
           \/ ivi_layout_addNotificationRemoveSurface(cb, userdata)
           \/ ivi_layout_removeNotificationCreateLayer(cb, userdata)
           \/ ivi_layout_removeNotificationRemoveLayer(cb, userdata)
           \/ ivi_layout_removeNotificationCreateSurface(cb, userdata)
           \/ ivi_layout_removeNotificationRemoveSurface(cb, userdata)
    \/ \E id \in {1}, d \in FullLayerDimensions :
           /\ id \notin DOMAIN ivilayer
           /\ ivi_layout_layerCreateWithDimension(id, d[1], d[2])
    \/ \E l \in {1} : ivi_layout_layerRemove(l)
    \/ ivi_layout_commitChanges

SpecUnregister ==
    /\ InitObserved(MaxUnregisterCalls, MaxUnregisterCommits, MaxUnregisterObservers)
    /\ [][NextUnregister]_vars

(* The four global registries. *)
Registries(ln, sn) == <<ln.list_create, ln.list_remove, sn.list_create, sn.list_remove>>

(* The step is the removal of (callback, userdata) from the registry named. *)
IsRemoval(name, callback, userdata) ==
    /\ IsCall
    /\ Last(batch') = Op(name, callback, userdata)

(***************************************************************************)
(* C32: removing a global notification by (callback, userdata) removes the *)
(* registrations of its registry whose callback and userdata both match    *)
(* and leaves every other registration, in that registry and in the        *)
(* others, where it was; when none matches, nothing changes.               *)
(***************************************************************************)
C32_RemoveNotification ==
    [][\A i \in 1..4, cb \in ObserverCallbacks, userdata \in {1, 2} :
           IsRemoval(<<"removeNotificationCreateLayer", "removeNotificationRemoveLayer",
                       "removeNotificationCreateSurface",
                       "removeNotificationRemoveSurface">>[i], cb, userdata) =>
               LET old == Registries(layer_notification, surface_notification)
                   new == Registries(layer_notification', surface_notification')
               IN  /\ new[i] = SelectSeq(old[i],
                                  LAMBDA link : link # link_Notification(cb, userdata))
                   /\ \A j \in 1..4 \ {i} : new[j] = old[j]
                   /\ (\A k \in DOMAIN old[i] : old[i][k] # link_Notification(cb, userdata))
                          => new[i] = old[i]]_vars

(* A removal left, around the place of the record it removed, a record of  *)
(* the same callback with another userdata and one of another callback.    *)
C32_Witness ==
    /\ batch # <<>>
    /\ Last(batch).op = "removeNotificationCreateLayer"
    /\ Len(layer_notification.list_create) = 2
    /\ layer_notification.list_create[1].callback = Last(batch).ent
    /\ layer_notification.list_create[1].userdata # Last(batch).arg
    /\ layer_notification.list_create[2].callback # Last(batch).ent
    /\ layer_notification.list_create[2].userdata = Last(batch).arg

(* What a surface keeps across the unbinding and rebinding of its content. *)
Identity(surf) ==
    <<surf.prop, surf.pending_prop, surf.event_mask, surf.list_notification, surf.list_layer>>

(***************************************************************************)
(* C33: content rebinding keeps identity.  When the client destroys its    *)
(* ivi_surface the layout surface stays registered, without content; a     *)
(* later surface-create request for the same id binds the new content to   *)
(* that layout surface, whose pending and current properties and layer     *)
(* memberships are as before, and every surface-create observer is invoked *)
(* exactly once, for that surface.                                         *)
(***************************************************************************)
C33_RebindKeepsIdentity ==
    [][/\ \A s \in SurfaceIds :
              (/\ s \in DOMAIN ivisurf
               /\ ivisurf[s].surface # NULL
               /\ surface_destroy(s)) =>
                  /\ list_surface' = list_surface
                  /\ DOMAIN ivisurf' = DOMAIN ivisurf
                  /\ ivisurf'[s].surface = NULL
                  /\ Identity(ivisurf'[s]) = Identity(ivisurf[s])
                  /\ ivilayer' = ivilayer
                  /\ trace' = <<>>
       /\ \A ws \in {1, 2}, d \in BufferDimensions, id \in SurfaceIds :
              (/\ id \in DOMAIN ivisurf
               /\ ivisurf[id].surface = NULL
               /\ ~configure(ws)
               /\ application_surface_create(ws, d[1], d[2], id)) =>
                  /\ ret' = [kind |-> "ivi_surface", val |-> id]
                  /\ list_surface' = list_surface
                  /\ DOMAIN ivisurf' = DOMAIN ivisurf
                  /\ ivisurf'[id].surface = ws
                  /\ Identity(ivisurf'[id]) = Identity(ivisurf[id])
                  /\ \A s \in DOMAIN ivisurf \ {id} : ivisurf'[s] = ivisurf[s]
                  /\ ivilayer' = ivilayer
                  /\ trace' = [i \in DOMAIN surface_notification.list_create |->
                                  Event("surface_create", id,
                                        surface_notification.list_create[i], {}, NoProp)]]_vars

(* A surface with a staged opacity and a pending membership, unbound and   *)
(* bound again under a surface-create observer.                            *)
C33_Witness ==
    /\ ret.kind = "ivi_surface"
    /\ trace # <<>>
    /\ Len(trace) = Len(surface_notification.list_create)
    /\ ret.val \in DOMAIN ivisurf
    /\ ivisurf[ret.val].surface # NULL
    /\ ivisurf[ret.val].pending_prop # ivisurf[ret.val].prop
    /\ \E l \in DOMAIN ivilayer : InList(ivilayer[l].pending_list_surface, ret.val)

(***************************************************************************)
(* The whole hierarchy: surfaces in layers and layers on screens, by every *)
(* membership call.                                                        *)
(***************************************************************************)
NextHierarchy ==
    \/ Creation(LayerIds, FullLayerDimensions, SurfaceIds)
    \/ LayerMembership(LayerIds, SurfaceIds)
    \/ ScreenMembership(ScreenIds, LayerIds)
    \/ ivi_layout_commitChanges

SpecHierarchy == InitWith(MaxHierarchyCalls, MaxHierarchyCommits) /\ [][NextHierarchy]_vars

(* The lists, one per holder, that hold the element. *)
Holders(lists, elm) == {x \in DOMAIN lists : InList(lists[x], elm)}

AtMostOneHolder(lists, elms) == \A elm \in elms : Cardinality(Holders(lists, elm)) <= 1

SingleMembership(L, SC) ==
    /\ AtMostOneHolder([l \in DOMAIN L |-> L[l].pending_list_surface], SurfaceIds)
    /\ AtMostOneHolder([l \in DOMAIN L |-> L[l].order_list_surface], SurfaceIds)
    /\ AtMostOneHolder([sc \in DOMAIN SC |-> SC[sc].pending_list_layer], LayerIds)
    /\ AtMostOneHolder([sc \in DOMAIN SC |-> SC[sc].order_list_layer], LayerIds)

(***************************************************************************)
(* C34: single membership.  After every operation each surface is in the   *)
(* pending surface list of at most one layer and in the committed surface  *)
(* order of at most one layer, and each layer in the pending list and in   *)
(* the committed order of at most one screen.  Adding a surface to a layer *)
(* while it is pending in another layer takes it out of that layer's       *)
(* pending list and sets no bit in that layer's event mask.                *)
(***************************************************************************)
C34_SingleMembership ==
    [][/\ SingleMembership(ivilayer', iviscrn')
       /\ \A l1, l2 \in DOMAIN ivilayer, s \in DOMAIN ivisurf :
              (/\ l1 # l2
               /\ InList(ivilayer[l1].pending_list_surface, s)
               /\ Called("layerAddSurface", l2, s)
               /\ ~Crashed') =>
                  /\ ~InList(ivilayer'[l1].pending_list_surface, s)
                  /\ InList(ivilayer'[l2].pending_list_surface, s)
                  /\ ivilayer'[l1].event_mask = ivilayer[l1].event_mask]_vars

(* A surface committed in one layer was added to the other layer, which is *)
(* committed: the first layer was not flagged and its order still holds a  *)
(* surface it no longer has pending.                                       *)
C34_Witness ==
    /\ Committed
    /\ \E l1, l2 \in DOMAIN ivilayer, s \in DOMAIN ivisurf :
           /\ l1 # l2
           /\ InList(ivilayer[l2].order_list_surface, s)
           /\ InList(ivilayer[l2].pending_list_surface, s)
           /\ EndsWith(applied, "layerAddSurface", l2, s)
           /\ \E i \in DOMAIN applied :
                  /\ applied[i].op = "layerAddSurface"
                  /\ applied[i].ent = l1
                  /\ applied[i].arg = s

(***************************************************************************)
(* C35: back-link memory safety.  A back-link record, from a surface to a  *)
(* layer or from a layer to a screen, is unlinked from both lists it is a  *)
(* member of before it is freed: after any sequence of commits, surface    *)
(* removals and layer removals no list of a live layer, surface or screen  *)
(* holds a freed record, so that none is read or freed a second time.      *)
(***************************************************************************)
C35_BackLinkSafety ==
    /\ \A l \in DOMAIN ivilayer : ~AnyFreed(ivilayer[l].link_to_surface)
    /\ \A s \in DOMAIN ivisurf : ~AnyFreed(ivisurf[s].list_layer)
    /\ \A sc \in DOMAIN iviscrn : ~AnyFreed(iviscrn[sc].link_to_layer)

(***************************************************************************)
(* C36: no dangling membership after layer removal.  When layerRemove(L)   *)
(* is called while the pending or the committed surface list of L is not   *)
(* empty, every surface of those lists is detached from them: no surface   *)
(* keeps a pending or an order link into the destroyed layer for a later   *)
(* layerAddSurface, layerRemoveSurface, surfaceRemove or commit to follow. *)
(***************************************************************************)
C36_NoDanglingMembership ==
    [][\A l \in LayerIds :
          (l \in DOMAIN ivilayer /\ l \notin DOMAIN ivilayer') =>
              \A s \in DOMAIN ivisurf' :
                  /\ InList(ivilayer[l].pending_list_surface, s) =>
                         ~ivisurf'[s].pending_dangling
                  /\ InList(ivilayer[l].order_list_surface, s) =>
                         ~ivisurf'[s].order_dangling]_vars

(***************************************************************************)
(* Observed removal: a layer on a screen and a surface in the layer,       *)
(* committed and removed under remove observers.                           *)
(***************************************************************************)
NextRemoval ==
    \/ \E cb \in ObserverCallbacks :
           \/ ivi_layout_addNotificationRemoveLayer(cb, NULL)
           \/ ivi_layout_addNotificationRemoveSurface(cb, NULL)
    \/ \E id \in {1}, d \in FullLayerDimensions :
           /\ id \notin DOMAIN ivilayer
           /\ ivi_layout_layerCreateWithDimension(id, d[1], d[2])
    \/ \E id \in {1}, wl \in WestonSurfaces, d \in BufferDimensions :
           /\ id \notin DOMAIN ivisurf
           /\ ivi_layout_surfaceCreate(wl, d[1], d[2], id)
    \/ \E l \in {1}, s \in {1} : ivi_layout_layerAddSurface(l, s)
    \/ \E sc \in {Head(list_screen)}, l \in {1} : ivi_layout_screenAddLayer(sc, l)
    \/ \E l \in {1} : ivi_layout_layerRemove(l)
    \/ \E s \in {1} : ivi_layout_surfaceRemove(s)
    \/ \E s \in {1} : westonsurface_destroy_from_ivisurface(s)
    \/ ivi_layout_commitChanges

SpecRemoval ==
    /\ InitObserved(MaxRemovalCalls, MaxRemovalCommits, MaxRemovalObservers)
    /\ [][NextRemoval]_vars

(***************************************************************************)
(* C37: remove-observer ordering.  A surface-remove observer is invoked    *)
(* when the surface is out of the registry and out of every pending and    *)
(* committed list but not yet freed, so an observer that enumerates the    *)
(* surfaces and commits does not meet it; a layer-remove observer is       *)
(* invoked while the layer is registered and linked as before the call,    *)
(* before anything is unlinked.  Both objects are freed when the call      *)
(* returns.                                                                *)
(***************************************************************************)
C37_RemoveObserverOrdering ==
    [][~Crashed' => \A i \in DOMAIN trace' :
          /\ trace'[i].kind = "surface_remove" =>
                 /\ trace'[i].prop = Seen(FALSE, FALSE, TRUE)
                 /\ trace'[i].ent \in DOMAIN ivisurf
                 /\ trace'[i].ent \notin DOMAIN ivisurf'
          /\ trace'[i].kind = "layer_remove" =>
                 /\ trace'[i].prop =
                        Seen(TRUE,
                             \E sc \in DOMAIN iviscrn :
                                 \/ InList(iviscrn[sc].pending_list_layer, trace'[i].ent)
                                 \/ InList(iviscrn[sc].order_list_layer, trace'[i].ent),
                             TRUE)
                 /\ trace'[i].ent \in DOMAIN ivilayer
                 /\ trace'[i].ent \notin DOMAIN ivilayer']_vars

(* Two observers were handed a removed surface that had been committed in  *)
(* a layer: the record the layer keeps of it is the trace of that.         *)
C37_Witness ==
    /\ Len(trace) = 2
    /\ \A i \in DOMAIN trace :
           /\ trace[i].kind = "surface_remove"
           /\ ~trace[i].prop.registered
           /\ \E l \in DOMAIN ivilayer :
                  LeadsTo(ivilayer[l].link_to_surface, "ivisurf", trace[i].ent)

(***************************************************************************)
(* C38: destroy-order safety in the shell.  In whichever order a client    *)
(* destroys its wl_surface and its ivi_surface, the shell follows no       *)
(* pointer to a destroyed weston surface: when the ivi_surface destroy     *)
(* request is handled, the weston surface of the shell surface is one that *)
(* still exists, also after the destruction of the wl_surface has removed  *)
(* the layout surface.                                                     *)
(***************************************************************************)
C38_DestroyOrderSafety ==
    [][\A s \in SurfaceIds :
          (/\ s \in DOMAIN ivi_surface_list
           /\ surface_destroy(s)) =>
              /\ ivi_surface_list[s].surface # NULL
              /\ ~ivi_surface_list[s].destroyed]_vars


(***************************************************************************)
(* The HMI controller.  A handler of the controller makes several layout   *)
(* calls and, most of them, one commit.  The calls of a handler are        *)
(* applied in order to LS = [L, S, SC, V, ub, calls], as the steps of a    *)
(* commit are; calls are the calls made so far.                            *)
(***************************************************************************)
(* hmi_server_setting_create. *)
base_layer_id == 1000
workspace_background_layer_id == 2000
workspace_layer_id == 3000
application_layer_id == 4000
panel_height == 70

(* The side of the home button. *)
home_button_size == 48

IVI_HMI_CONTROLLER_HOME_OFF == "HOME_OFF"
IVI_HMI_CONTROLLER_HOME_ON == "HOME_ON"

IVI_HMI_CONTROLLER_LAYOUT_MODE_TILING == "TILING"
IVI_HMI_CONTROLLER_LAYOUT_MODE_SIDE_BY_SIDE == "SIDE_BY_SIDE"
IVI_HMI_CONTROLLER_LAYOUT_MODE_FULL_SCREEN == "FULL_SCREEN"
IVI_HMI_CONTROLLER_LAYOUT_MODE_RANDOM == "RANDOM"

LayoutModes ==
    {IVI_HMI_CONTROLLER_LAYOUT_MODE_TILING, IVI_HMI_CONTROLLER_LAYOUT_MODE_SIDE_BY_SIDE,
     IVI_HMI_CONTROLLER_LAYOUT_MODE_FULL_SCREEN, IVI_HMI_CONTROLLER_LAYOUT_MODE_RANDOM}

(* The layout calls the handlers make, as steps on LS. *)
layerSetOpacity(LS, l, opacity) ==
    [LS EXCEPT !.calls = Append(@, Op("layerSetOpacity", l, opacity)),
               !.L[l].pending_prop.opacity = opacity,
               !.L[l].event_mask = @ \cup IVI_NOTIFICATION_OPACITY]

layerSetVisibility(LS, l, newVisibility) ==
    [LS EXCEPT !.calls = Append(@, Op("layerSetVisibility", l, newVisibility)),
               !.L[l].pending_prop.visibility = newVisibility,
               !.L[l].event_mask = @ \cup IVI_NOTIFICATION_VISIBILITY]

layerSetDestinationRectangle(LS, l, x, y, width, height) ==
    [LS EXCEPT !.calls = Append(@, Op("layerSetDestinationRectangle", l,
                                      <<x, y, width, height>>)),
               !.L[l].pending_prop.destX = x,
               !.L[l].pending_prop.destY = y,
               !.L[l].pending_prop.destWidth = width,
               !.L[l].pending_prop.destHeight = height,
               !.L[l].event_mask = @ \cup IVI_NOTIFICATION_DEST_RECT]

surfaceSetVisibility(LS, s, newVisibility) ==
    [LS EXCEPT !.calls = Append(@, Op("surfaceSetVisibility", s, newVisibility)),
               !.S[s].pending_prop.visibility = newVisibility,
               !.S[s].event_mask = @ \cup IVI_NOTIFICATION_VISIBILITY]

surfaceSetDestinationRectangle(LS, s, x, y, width, height) ==
    [LS EXCEPT !.calls = Append(@, Op("surfaceSetDestinationRectangle", s,
                                      <<x, y, width, height>>)),
               !.S[s].pending_prop.destX = x,
               !.S[s].pending_prop.destY = y,
               !.S[s].pending_prop.destWidth = width,
               !.S[s].pending_prop.destHeight = height,
               !.S[s].event_mask = @ \cup IVI_NOTIFICATION_DEST_RECT]

layerAddSurface(LS, l, addsurf) ==
    IF InList(LS.L[l].pending_list_surface, addsurf)
    THEN [LS EXCEPT !.calls = Append(@, [Op("layerAddSurface", l, addsurf) EXCEPT
                                            !.outcome = "early"])]
    ELSE [LS EXCEPT
             !.calls = Append(@, Op("layerAddSurface", l, addsurf)),
             !.ub = @ \/ LS.S[addsurf].pending_dangling,
             !.L = [RemovePendingSurface(@, addsurf) EXCEPT
                       ![l].pending_list_surface = wl_list_insert(@, addsurf),
                       ![l].event_mask = @ \cup IVI_NOTIFICATION_ADD],
             !.S = UnlinkPending(@, {addsurf})]

screenAddLayer(LS, sc, addlayer) ==
    IF InList(LS.SC[sc].pending_list_layer, addlayer)
    THEN [LS EXCEPT !.calls = Append(@, [Op("screenAddLayer", sc, addlayer) EXCEPT
                                            !.outcome = "early"])]
    ELSE [LS EXCEPT
             !.calls = Append(@, Op("screenAddLayer", sc, addlayer)),
             !.SC = [RemovePendingLayer(@, addlayer) EXCEPT
                        ![sc].pending_list_layer = wl_list_insert(@, addlayer),
                        ![sc].event_mask = @ \cup IVI_NOTIFICATION_ADD]]

(* The three steps of ivi_layout_commitChanges before send_prop. *)
commitChanges(LS) ==
    LET LS0 == [LS EXCEPT !.S = commit_list_surface(@)]
        LS1 == commit_list_layer(LS0, list_layer)
        LS2 == commit_list_screen(LS1, list_screen)
    IN  commit_changes(LS2, list_screen)

(* struct hmi_controller_layer. *)
hmi_controller_layer(id_layer, x, y, width, height) ==
    [id_layer |-> id_layer, x |-> x, y |-> y, width |-> width, height |-> height]

create_layer(LS, sc, layer) ==
    LET LS1 == [LS EXCEPT !.L = Extend(@, layer.id_layer, NewLayer(layer.width, layer.height))]
        LS2 == screenAddLayer(LS1, sc, layer.id_layer)
        LS3 == layerSetDestinationRectangle(LS2, layer.id_layer, layer.x, layer.y,
                                            layer.width, layer.height)
    IN  layerSetVisibility(LS3, layer.id_layer, 1)

(* The controller after hmi_controller_create on a screen of the given     *)
(* resolution: struct hmi_controller, with the animation objects that are  *)
(* allocated, each with the target of its spring.                          *)
hmi_controller(screen_width, screen_height) ==
    [layout_mode |-> IVI_HMI_CONTROLLER_LAYOUT_MODE_TILING,
     is_initialized |-> 0,
     ui_widgets |-> <<>>,
     base_layer |-> hmi_controller_layer(base_layer_id, 0, 0, screen_width, screen_height),
     application_layer |->
         hmi_controller_layer(application_layer_id, 0, 0,
                              screen_width, screen_height - panel_height),
     workspace_background_layer |->
         hmi_controller_layer(workspace_background_layer_id, 0, 0,
                              screen_width, screen_height - panel_height),
     workspace_layer |->
         hmi_controller_layer(workspace_layer_id, 0, 0,
                              screen_width, screen_height - panel_height),
     workspace_fade |->
         [isFadeIn |-> 0, animation |-> NULL,
          layer_list |-> <<workspace_background_layer_id, workspace_layer_id>>],
     anima_set |-> [animation_list |-> <<>>, timer |-> 0],
     animations |-> <<>>]

(* The layout calls of hmi_controller_create on the empty layout. *)
hmi_controller_create(screen_width, screen_height) ==
    LET H == hmi_controller(screen_width, screen_height)
        sc == Head(create_screen(MaxScreens))
        LS0 == [L |-> <<>>, S |-> <<>>, SC |-> [x \in ScreenIds |-> NewScreen],
                V |-> <<>>, ub |-> FALSE, calls |-> <<>>, list_surface |-> <<>>,
                switches |-> 0]
        LS1 == create_layer(LS0, sc, H.base_layer)
        LS2 == create_layer(LS1, sc, H.application_layer)
        LS3 == create_layer(LS2, sc, H.workspace_background_layer)
        LS4 == layerSetVisibility(
                   layerSetOpacity(LS3, workspace_background_layer_id, 0),
                   workspace_background_layer_id, 0)
        LS5 == create_layer(LS4, sc, H.workspace_layer)
    IN  layerSetVisibility(layerSetOpacity(LS5, workspace_layer_id, 0),
                           workspace_layer_id, 0)

(* The state after module_init: the controller is created on the layout    *)
(* as ivi_layout_initWithCompositor leaves it; nothing is committed yet.   *)
(* The clients go on to create the given number of surfaces and to ask for *)
(* a layout mode the given number of times.                                *)
InitHmi(surfaces, switches) ==
    LET LS == hmi_controller_create(ScreenWidth, ScreenHeight)
    IN  /\ list_screen = create_screen(MaxScreens)
        /\ list_layer = <<workspace_layer_id, workspace_background_layer_id,
                          application_layer_id, base_layer_id>>
        /\ list_surface = <<>>
        /\ iviscrn = LS.SC
        /\ ivilayer = LS.L
        /\ ivisurf = LS.S
        /\ layer_notification = [list_create |-> <<>>, list_remove |-> <<>>]
        /\ surface_notification =
               [list_create |->
                    <<link_Notification("set_notification_create_surface", "hmi_ctrl")>>,
                list_remove |->
                    <<link_Notification("set_notification_remove_surface", "hmi_ctrl")>>,
                list_configure |->
                    <<link_Notification("set_notification_configure_surface", "hmi_ctrl")>>]
        /\ view_list = <<>>
        /\ trace = <<>>
        /\ ret = Status(0)
        /\ batch = LS.calls
        /\ applied = <<>>
        /\ budget = [calls |-> surfaces, commits |-> switches, registrations |-> 0]
        /\ leaked = 0
        /\ ivi_surface_list = <<>>
        /\ hmi_ctrl = hmi_controller(ScreenWidth, ScreenHeight)

(* The world a handler starts from. *)
World ==
    [L |-> ivilayer, S |-> ivisurf, SC |-> iviscrn, V |-> view_list, ub |-> FALSE,
     calls |-> <<>>, list_surface |-> list_surface, switches |-> 0]

(* The state a handler leaves: the world LS and the controller H, after    *)
(* the callbacks of events.  The calls of the handler join the batch, and  *)
(* a commit, when the handler ends with one, applies the batch.  A surface *)
(* that was created is one less for the clients to create, and a mode that *)
(* was asked for one less for them to ask for.                             *)
Handled(LS, H, events, committed) ==
    \E outcome \in Outcomes(LS.ub) :
        IF outcome = "crash" THEN Crash
        ELSE /\ ~Crashed
             /\ ivilayer' = LS.L
             /\ ivisurf' = LS.S
             /\ iviscrn' = LS.SC
             /\ view_list' = LS.V
             /\ hmi_ctrl' = H
             /\ trace' = events
             /\ batch' = IF committed THEN <<>> ELSE batch \o LS.calls
             /\ applied' = IF committed THEN batch \o LS.calls ELSE <<>>
             /\ list_surface' = LS.list_surface
             /\ budget' = [budget EXCEPT
                               !.calls = @ - (Len(LS.list_surface) - Len(list_surface)),
                               !.commits = @ - LS.switches]
             /\ ret' = [kind |-> "void", val |-> 0]
             /\ UNCHANGED <<list_screen, list_layer, layer_notification,
                            surface_notification, leaked, ivi_surface_list>>

(* A handler that returns without a commit. *)
HandlerReturns(LS, H, events) == Handled(LS, H, events, FALSE)

(* A handler that ends with ivi_layout_commitChanges. *)
HandlerCommits(LS, H, events) ==
    LET LS3 == commitChanges(LS)
    IN  Handled([LS3 EXCEPT !.L = ClearMasks(@), !.S = ClearMasks(@)], H,
                events \o send_prop(LS3) \o
                    <<Event("repaint", NULL, "none", {}, NoProp)>>,
                TRUE)

(***************************************************************************)
(* The workspace fade.  The spring of the animation is not modelled: each  *)
(* frame draws the alpha the spring has reached and whether it is done.    *)
(***************************************************************************)
(* wl_fixed_from_double of the alpha values a frame can see. *)
FadeAlphas == {0, 128, wl_fixed_one}

animation_set_add_animation(H, anima) ==
    [H EXCEPT !.anima_set.animation_list = wl_list_insert(@, anima),
              !.anima_set.timer = 1]

animation_set_remove_animation(H, anima) ==
    [H EXCEPT !.anima_set.animation_list = wl_list_remove(@, anima)]

hmi_controller_fade_animation_destroy(H, animation) ==
    [animation_set_remove_animation(H, animation) EXCEPT !.workspace_fade.animation = NULL]

(* hmi_controller_animation_destroy: destroy_func, then free. *)
hmi_controller_animation_destroy(H, animation) ==
    [hmi_controller_fade_animation_destroy(H, animation) EXCEPT
        !.animations = Without(@, animation)]

(* The animation objects are numbered as they are allocated. *)
hmi_controller_animation_fade_create(H, end) ==
    [H EXCEPT !.animations = Extend(@, Len(H.anima_set.animation_list) + 1,
                                    [end |-> end, target |-> end])]

hmi_controller_fade_update(H, animation, end) ==
    [H EXCEPT !.animations[animation].target = end]

(* A fade_run that starts a new animation whether or not one is running. *)
hmi_controller_fade_run_Always(H, isFadeIn) ==
    LET tint == IF isFadeIn # 0 THEN wl_fixed_one ELSE 0
        H1 == [H EXCEPT !.workspace_fade.isFadeIn = isFadeIn]
        H2 == hmi_controller_animation_fade_create(H1, tint)
        anima == Len(H.anima_set.animation_list) + 1
    IN  animation_set_add_animation([H2 EXCEPT !.workspace_fade.animation = anima], anima)

hmi_controller_fade_run(H, isFadeIn) ==
    LET tint == IF isFadeIn # 0 THEN wl_fixed_one ELSE 0
        H1 == [H EXCEPT !.workspace_fade.isFadeIn = isFadeIn]
    IN  IF H1.workspace_fade.animation # NULL
        THEN hmi_controller_fade_update(H1, H1.workspace_fade.animation, tint)
        ELSE LET H2 == hmi_controller_animation_fade_create(H1, tint)
                 anima == Len(H.anima_set.animation_list) + 1
             IN  animation_set_add_animation(
                     [H2 EXCEPT !.workspace_fade.animation = anima], anima)

ivi_hmi_controller_home(home) ==
    /\ ~Crashed
    /\ IF \/ home = IVI_HMI_CONTROLLER_HOME_ON /\ hmi_ctrl.workspace_fade.isFadeIn = 0
          \/ home = IVI_HMI_CONTROLLER_HOME_OFF /\ hmi_ctrl.workspace_fade.isFadeIn # 0
       THEN HandlerReturns(World,
                hmi_controller_fade_run(hmi_ctrl, 1 - hmi_ctrl.workspace_fade.isFadeIn), <<>>)
       ELSE HandlerReturns(World, hmi_ctrl, <<>>)

(* The opacity and visibility of the layers of the fade, in list order. *)
RECURSIVE FadeLayers(_, _, _, _)
FadeLayers(LS, layer_list, alpha, is_visible) ==
    IF layer_list = <<>> THEN LS
    ELSE FadeLayers(
             layerSetVisibility(layerSetOpacity(LS, Head(layer_list), alpha),
                                Head(layer_list), is_visible),
             Tail(layer_list), alpha, is_visible)

(* One frame of the fade animation on W = [LS, H]. *)
hmi_controller_anima_fade_user_frame(W, animation, alpha, is_done) ==
    LET fade == W.H.workspace_fade
        is_visible == IF is_done = 0 \/ fade.isFadeIn # 0 THEN 1 ELSE 0
        LS1 == FadeLayers(W.LS, fade.layer_list, alpha, is_visible)
    IN  [LS |-> LS1,
         H |-> IF is_done # 0 THEN hmi_controller_animation_destroy(W.H, animation)
               ELSE W.H]

(* wl_list_for_each_safe over the animations of the set. *)
RECURSIVE AnimationFrames(_, _, _, _)
AnimationFrames(W, animation_list, alpha, is_done) ==
    IF animation_list = <<>> THEN W
    ELSE AnimationFrames(
             hmi_controller_anima_fade_user_frame(W, Head(animation_list), alpha, is_done),
             Tail(animation_list), alpha, is_done)

(* The timer of the animation set fires. *)
animation_set_do_anima(alpha, is_done) ==
    /\ ~Crashed
    /\ hmi_ctrl.anima_set.timer # 0
    /\ IF hmi_ctrl.anima_set.animation_list = <<>>
       THEN HandlerReturns(World, [hmi_ctrl EXCEPT !.anima_set.timer = 0], <<>>)
       ELSE LET W == AnimationFrames([LS |-> World, H |-> hmi_ctrl],
                                     hmi_ctrl.anima_set.animation_list, alpha, is_done)
            IN  HandlerCommits(W.LS, W.H, <<>>)

(***************************************************************************)
(* The surfaces under the controller, and its layout modes.                *)
(***************************************************************************)
is_surf_in_uiWidget(H, s) == InList(H.ui_widgets, s)

set_notification_create_surface(LS, H, s) ==
    IF is_surf_in_uiWidget(H, s) THEN LS
    ELSE layerAddSurface(LS, H.application_layer.id_layer, s)

(* ivi_layout_getSurfaces without the UI widgets, in the order of the array. *)
ApplicationSurfaces(H, ppSurface) ==
    SelectSeq(ppSurface, LAMBDA s : ~is_surf_in_uiWidget(H, s))

(* float to int32_t: the fraction is dropped. *)
Truncated(dividend, divisor) == dividend \div divisor

(* The loops of the modes over the application surfaces still to place;    *)
(* num counts from 1.                                                      *)
RECURSIVE mode_divided_into_tiling(_, _, _, _)
mode_divided_into_tiling(LS, surfs, num, layer) ==
    IF surfs = <<>> THEN LS
    ELSE IF num <= 8
    THEN mode_divided_into_tiling(
             surfaceSetVisibility(
                 surfaceSetDestinationRectangle(LS, Head(surfs),
                     IF num < 5 THEN Truncated((num - 1) * layer.width, 4)
                     ELSE Truncated((num - 5) * layer.width, 4),
                     IF num < 5 THEN 0 ELSE Truncated(layer.height, 2),
                     Truncated(layer.width, 4), Truncated(layer.height, 2)),
                 Head(surfs), 1),
             Tail(surfs), num + 1, layer)
    ELSE mode_divided_into_tiling(surfaceSetVisibility(LS, Head(surfs), 0),
                                  Tail(surfs), num, layer)

RECURSIVE mode_divided_into_sidebyside(_, _, _, _)
mode_divided_into_sidebyside(LS, surfs, num, layer) ==
    IF surfs = <<>> THEN LS
    ELSE IF num = 1
    THEN mode_divided_into_sidebyside(
             surfaceSetVisibility(
                 surfaceSetDestinationRectangle(LS, Head(surfs), 0, 0,
                                                layer.width \div 2, layer.height),
                 Head(surfs), 1),
             Tail(surfs), num + 1, layer)
    ELSE IF num = 2
    THEN mode_divided_into_sidebyside(
             surfaceSetVisibility(
                 surfaceSetDestinationRectangle(LS, Head(surfs), layer.width \div 2, 0,
                                                layer.width \div 2, layer.height),
                 Head(surfs), 1),
             Tail(surfs), num + 1, layer)
    ELSE mode_divided_into_sidebyside(surfaceSetVisibility(LS, Head(surfs), 0),
                                      Tail(surfs), num, layer)

RECURSIVE mode_fullscreen_someone(_, _, _)
mode_fullscreen_someone(LS, surfs, layer) ==
    IF surfs = <<>> THEN LS
    ELSE mode_fullscreen_someone(
             surfaceSetVisibility(
                 surfaceSetDestinationRectangle(LS, Head(surfs), 0, 0,
                                                layer.width, layer.height),
                 Head(surfs), 1),
             Tail(surfs), layer)

(* rand[i] is what the i-th call of rand() returns. *)
RECURSIVE mode_random_replace(_, _, _, _, _)
mode_random_replace(LS, surfs, layer, rand, i) ==
    IF surfs = <<>> THEN LS
    ELSE mode_random_replace(
             surfaceSetVisibility(
                 surfaceSetDestinationRectangle(LS, Head(surfs),
                     rand[i] % (layer.width - Truncated(layer.width, 4)),
                     rand[i + 1] % (layer.height - Truncated(layer.height, 4)),
                     Truncated(layer.width, 4), Truncated(layer.height, 4)),
                 Head(surfs), 1),
             Tail(surfs), layer, rand, i + 2)

has_applicatipn_surface(H, ppSurface) == ApplicationSurfaces(H, ppSurface) # <<>>

(* switch_mode: what it leaves of LS and H, and whether it commits. *)
switch_mode(LS, H, layout_mode, rand) ==
    IF H.is_initialized = 0 THEN [LS |-> LS, H |-> H, commit |-> FALSE]
    ELSE LET H1 == [H EXCEPT !.layout_mode = layout_mode]
             ppSurface == LS.list_surface
             surfs == ApplicationSurfaces(H1, ppSurface)
             layer == H1.application_layer
         IN  IF ~has_applicatipn_surface(H1, ppSurface)
             THEN [LS |-> LS, H |-> H1, commit |-> FALSE]
             ELSE [LS |-> CASE layout_mode = IVI_HMI_CONTROLLER_LAYOUT_MODE_TILING ->
                                   mode_divided_into_tiling(LS, surfs, 1, layer)
                            [] layout_mode = IVI_HMI_CONTROLLER_LAYOUT_MODE_SIDE_BY_SIDE ->
                                   mode_divided_into_sidebyside(LS, surfs, 1, layer)
                            [] layout_mode = IVI_HMI_CONTROLLER_LAYOUT_MODE_FULL_SCREEN ->
                                   mode_fullscreen_someone(LS, surfs, layer)
                            [] layout_mode = IVI_HMI_CONTROLLER_LAYOUT_MODE_RANDOM ->
                                   mode_random_replace(LS, surfs, layer, rand, 1)
                            [] OTHER -> LS,
                   H |-> H1, commit |-> TRUE]

(* The handler ends as its switch_mode did. *)
Switched(W, events) ==
    IF W.commit THEN HandlerCommits(W.LS, W.H, events)
    ELSE HandlerReturns(W.LS, W.H, events)

(* The sequences rand() can return: a generator that counts from a seed. *)
RandSequences == {[i \in 1..(2 * MaxModeSurfaces) |-> seed + i] : seed \in RandSeeds}

ivi_hmi_controller_switch_mode(layout_mode, rand) ==
    /\ ~Crashed
    /\ budget.commits > 0
    /\ Switched(switch_mode([World EXCEPT !.switches = 1], hmi_ctrl, layout_mode, rand),
                <<>>)

(* A client creates a surface under a new id: ivi_layout_surfaceCreate     *)
(* registers it and the create observer of the controller runs.            *)
SurfaceCreated(wl_surface, id_surface) ==
    /\ ~Crashed
    /\ budget.calls > 0
    /\ get_surface(list_surface, id_surface) = NULL
    /\ Handled(set_notification_create_surface(
                   [World EXCEPT !.S = Extend(@, id_surface, NewSurface(wl_surface)),
                                 !.list_surface = wl_list_insert(@, id_surface)],
                   hmi_ctrl, id_surface),
               hmi_ctrl,
               Notify(surface_notification.list_create, "surface_create", id_surface),
               FALSE)

(* ivi_shell_surface_configure: the surface has a buffer of a new size.    *)
(* ivi_layout_surfaceConfigure takes the size, which the shell keeps too,  *)
(* and the configure observer of the controller runs.                      *)
ivi_shell_surface_configure(s, width, height, rand) ==
    /\ ~Crashed
    /\ get_surface(list_surface, s) # NULL
    /\ width # 0 /\ height # 0
    /\ ivisurf[s].view # NULL
    /\ ivisurf[s].buffer_width # width \/ ivisurf[s].buffer_height # height
    /\ Switched(switch_mode([World EXCEPT !.S[s].buffer_width = width,
                                          !.S[s].buffer_height = height],
                            hmi_ctrl, hmi_ctrl.layout_mode, rand),
                Notify(surface_notification.list_configure, "surface_configure", s))

(* The surface with this id is the home button.  The assert on             *)
(* ivi_layout_getSurfaceFromId ends the compositor.  dstx and dsty are     *)
(* uint32_t: the base layer is larger than the button and the panel, and   *)
(* nothing wraps.                                                          *)
ivi_hmi_controller_set_home_button(id_surface) ==
    /\ ~Crashed
    /\ Len(hmi_ctrl.ui_widgets) < MaxWidgets
    /\ IF get_surface(list_surface, id_surface) = NULL THEN Crash
       ELSE LET size == home_button_size
                dstx == (hmi_ctrl.base_layer.width - size) \div 2
                dsty == (hmi_ctrl.base_layer.height - panel_height) + 5
                H == [hmi_ctrl EXCEPT !.ui_widgets = Append(@, id_surface)]
                LS1 == layerAddSurface(World, H.base_layer.id_layer, id_surface)
                LS2 == surfaceSetDestinationRectangle(LS1, id_surface, dstx, dsty, size, size)
                LS3 == surfaceSetVisibility(LS2, id_surface, 1)
            IN  HandlerCommits(LS3, [H EXCEPT !.is_initialized = 1], <<>>)

(* The requests of the clients and the timer of the animation set. *)
HmiSurfaceIds == 1..MaxModeSurfaces

Surfaces ==
    \/ \E id_surface \in HmiSurfaceIds :
           /\ id_surface = Len(list_surface) + 1
           /\ SurfaceCreated(id_surface, id_surface)
    \/ \E s \in ConfiguredSurfaces, dim \in BufferDimensions, rand \in RandSequences :
           ivi_shell_surface_configure(s, dim[1], dim[2], rand)
    \/ \E id_surface \in ButtonIds : ivi_hmi_controller_set_home_button(id_surface)

NextFade ==
    \/ Surfaces
    \/ \E home \in {IVI_HMI_CONTROLLER_HOME_ON, IVI_HMI_CONTROLLER_HOME_OFF} :
           ivi_hmi_controller_home(home)
    \/ \E alpha \in FadeAlphas, is_done \in {0, 1} : animation_set_do_anima(alpha, is_done)

SpecFade == InitHmi(MaxFadeSurfaces, 0) /\ [][NextFade]_vars

(* The fade animation is in the animation set. *)
FadeRunning == InList(hmi_ctrl.anima_set.animation_list, hmi_ctrl.workspace_fade.animation)

(* A home request that asks for the state the fade is already in. *)
SameHome(home) ==
    \/ home = IVI_HMI_CONTROLLER_HOME_ON /\ hmi_ctrl.workspace_fade.isFadeIn # 0
    \/ home = IVI_HMI_CONTROLLER_HOME_OFF /\ hmi_ctrl.workspace_fade.isFadeIn = 0

(* C39: after any sequence of home requests and animation ticks, at most   *)
(* one fade animation is in the animation set, and fade.animation is       *)
(* non-null exactly while that animation is in the set; a home request     *)
(* equal to the current isFadeIn changes nothing of the controller or the  *)
(* layout; and the tick on which the fade animation is done leaves both    *)
(* workspace layers with pending visibility isFadeIn and the animation     *)
(* out of the set.                                                         *)
C39_WorkspaceFade ==
    /\ [](/\ Len(hmi_ctrl.anima_set.animation_list) <= 1
          /\ (hmi_ctrl.workspace_fade.animation # NULL) <=> FadeRunning
          /\ (hmi_ctrl.workspace_fade.animation = NULL) =>
                 hmi_ctrl.anima_set.animation_list = <<>>)
    /\ [][/\ \A home \in {IVI_HMI_CONTROLLER_HOME_ON, IVI_HMI_CONTROLLER_HOME_OFF} :
                (SameHome(home) /\ ivi_hmi_controller_home(home)) =>
                    UNCHANGED <<hmi_ctrl, list_screen, list_layer, list_surface, iviscrn,
                                ivilayer, ivisurf, view_list, batch>>
          /\ \A alpha \in FadeAlphas :
                (FadeRunning /\ animation_set_do_anima(alpha, 1) /\ ~Crashed') =>
                    /\ \A i \in DOMAIN hmi_ctrl.workspace_fade.layer_list :
                           ivilayer'[hmi_ctrl.workspace_fade.layer_list[i]]
                               .pending_prop.visibility = hmi_ctrl.workspace_fade.isFadeIn
                    /\ hmi_ctrl'.workspace_fade.animation = NULL
                    /\ hmi_ctrl'.anima_set.animation_list = <<>>
                    /\ hmi_ctrl'.workspace_fade.isFadeIn = hmi_ctrl.workspace_fade.isFadeIn]_vars

(* The fade in has finished after a fade out was asked for and taken back: *)
(* the workspace layers are shown and no animation is left.                *)
C39_Witness ==
    /\ hmi_ctrl.workspace_fade.isFadeIn = 1
    /\ hmi_ctrl.workspace_fade.animation = NULL
    /\ hmi_ctrl.anima_set.animation_list = <<>>
    /\ hmi_ctrl.anima_set.timer = 0
    /\ \A i \in DOMAIN hmi_ctrl.workspace_fade.layer_list :
           /\ ivilayer[hmi_ctrl.workspace_fade.layer_list[i]].prop.visibility = 1
           /\ ivilayer[hmi_ctrl.workspace_fade.layer_list[i]].pending_prop.visibility = 1

NextMode ==
    \/ Surfaces
    \/ \E layout_mode \in LayoutModes, rand \in RandSequences :
           ivi_hmi_controller_switch_mode(layout_mode, rand)

SpecMode == InitHmi(MaxModeSurfaces, MaxModeSwitches) /\ [][NextMode]_vars

(* The application surfaces that are visible. *)
VisibleApplicationSurfaces(S, H) ==
    {s \in DOMAIN S : ~is_surf_in_uiWidget(H, s) /\ S[s].prop.visibility # 0}

(* The first count application surfaces of ivi_layout_getSurfaces. *)
FirstApplicationSurfaces(H, ppSurface, count) ==
    LET surfs == ApplicationSurfaces(H, ppSurface)
    IN  {surfs[i] : i \in {j \in DOMAIN surfs : j <= count}}

(* The most application surfaces a mode shows, where it has a limit. *)
ModeLimit(layout_mode) ==
    IF layout_mode = IVI_HMI_CONTROLLER_LAYOUT_MODE_TILING THEN 8 ELSE 2

(* C40: switch_mode does nothing until the home button has been set: no    *)
(* setter, no commit, layout_mode unchanged.  Once initialized,            *)
(* switch_mode(TILING) and its commit leave at most 8 application surfaces *)
(* visible and every further application surface invisible, and            *)
(* switch_mode(SIDE_BY_SIDE) leaves at most 2 visible.  No mode changes    *)
(* the properties, pending or current, of a UI-widget surface.             *)
C40_LayoutModes ==
    [][\A layout_mode \in LayoutModes, rand \in RandSequences :
           (ivi_hmi_controller_switch_mode(layout_mode, rand) /\ ~Crashed') =>
               /\ hmi_ctrl.is_initialized = 0 =>
                      UNCHANGED <<hmi_ctrl, ivilayer, ivisurf, iviscrn, view_list, batch>>
               /\ (/\ hmi_ctrl.is_initialized # 0
                   /\ layout_mode \in {IVI_HMI_CONTROLLER_LAYOUT_MODE_TILING,
                                       IVI_HMI_CONTROLLER_LAYOUT_MODE_SIDE_BY_SIDE}) =>
                      /\ Cardinality(VisibleApplicationSurfaces(ivisurf', hmi_ctrl'))
                             <= ModeLimit(layout_mode)
                      /\ VisibleApplicationSurfaces(ivisurf', hmi_ctrl') \subseteq
                             FirstApplicationSurfaces(hmi_ctrl', list_surface',
                                                      ModeLimit(layout_mode))
               /\ \A s \in DOMAIN ivisurf :
                      is_surf_in_uiWidget(hmi_ctrl, s) =>
                          /\ ivisurf'[s].prop = ivisurf[s].prop
                          /\ ivisurf'[s].pending_prop = ivisurf[s].pending_prop]_vars

=============================================================================
